---- MODULE Spec2Model ----
(***************************************************************************)
(* State-machine model of cardiff, a statsd clone: the UDP line parser,    *)
(* the aggregator, the snapshot/flush coordinator with its delivery        *)
(* threads, and the upstream merge.                                        *)
(*                                                                         *)
(* Representation of Python values:                                        *)
(*   str    a sequence of one-character strings                            *)
(*   int    an integer                                                     *)
(*   float  an integer count of thousandths (FloatScale)                   *)
(*   dict   a function with a finite domain                                *)
(*   nested internal_* dict   [nodes, leaves] over key paths               *)
(***************************************************************************)
EXTENDS Integers, Sequences, FiniteSets, TLC

VARIABLES
    \* Cardiff.application_config: the flush interval and the enabled backends
    application_config,
    \* Cardiff: the live metrics
    counters, gauges, sets, timers,
    internal_counters, internal_gauges, internal_timers,
    \* the wall clock in ms, and the PeriodicCallback's next deadline
    now, next_timeout,
    \* process_stats: where the event loop is in it, its locals stats,
    \* start_time and threads, and the backends it has still to start
    loop_pc, stats, stats_start_time, to_start, threads,
    \* the delivery threads: where each is, and its backend_start_time
    tpc, backend_start_time,
    \* the deep copy of the snapshot each thread hands to its sink, and
    \* whether a socket call of its deliver() ended in socket.error
    copies, socket_error,
    \* number of barrier sleeps so far that left a thread alive
    polls,
    \* the sinks: Backend.exceptions and Backend.last_exception
    exceptions, last_exception,
    \* the exception the last handler on the event loop raised, or "none"
    last_exc,
    \* history, kept where a specification asks for it: the live state before
    \* the last handler ran, the handler, the datagrams of the current
    \* interval and of the interval last flushed
    prev, last_op, interval_log, flushed_log,
    \* ... the payloads merged in the current interval and the timestamps of
    \* the snapshots taken so far
    merged_log, epoch_log,
    n_datagrams, n_flushes, n_merges,
    \* what the logger sink handed to log_sets and log_timers in the delivery
    \* of the flush under way
    logged,
    \* the upstream TCP connections accepted so far: whether the stream still
    \* has a read pending, the frames the peer has written that were not read,
    \* how many frames on_data was called with, and how its last call ended
    streams,
    \* GraphiteBackend.deliver in pickle format: which of its four calls of
    \* deliver_pickled_values it is in, where that call is, its local
    \* metrics, the list as it was built, the batches sent, and start_time
    pickling

live_vars  == <<counters, gauges, sets, timers,
                internal_counters, internal_gauges, internal_timers>>
clock_vars == <<now, next_timeout>>
flush_vars == <<loop_pc, stats, stats_start_time, to_start, threads>>
thread_vars == <<tpc, backend_start_time, copies, socket_error>>
sink_vars == <<exceptions, last_exception>>
hist_vars  == <<prev, last_op, interval_log, flushed_log, merged_log,
                epoch_log>>
count_vars == <<n_datagrams, n_flushes, n_merges>>
net_vars == <<streams, pickling>>
io_vars == <<logged, net_vars>>
vars == <<application_config, live_vars, clock_vars, flush_vars, thread_vars,
          polls, sink_vars, last_exc, hist_vars, count_vars, io_vars>>

(***************************************************************************)
(* Bounds of the model                                                     *)
(***************************************************************************)
\* datagrams received, frames merged and flush ticks of one run, together
MaxEvents == 4
\* barrier sleeps of one run that leave a delivery thread alive
MaxSleeps == 1

(***************************************************************************)
(* Text                                                                    *)
(***************************************************************************)
Digits == <<"0", "1", "2", "3", "4", "5", "6", "7", "8", "9">>
DigitSet == {Digits[i] : i \in 1..10}
DigitVal(c) == (CHOOSE i \in 1..10 : Digits[i] = c) - 1
Lower == {"a", "b", "c", "d", "e", "f", "g", "h", "i", "j", "k", "l", "m",
          "n", "o", "p", "q", "r", "s", "t", "u", "v", "w", "x", "y", "z"}
Upper == {"A", "B", "C", "D", "E", "F", "G", "H", "I", "J", "K", "L", "M",
          "N", "O", "P", "Q", "R", "S", "T", "U", "V", "W", "X", "Y", "Z"}
Whitespace == {" ", "\t", "\n", "\r"}

\* str.split(sep) for a one-character separator
RECURSIVE Split(_, _)
Split(s, sep) ==
    IF \A i \in 1..Len(s) : s[i] # sep
    THEN <<s>>
    ELSE LET i == CHOOSE i \in 1..Len(s) :
                      s[i] = sep /\ \A j \in 1..(i - 1) : s[j] # sep
         IN  <<SubSeq(s, 1, i - 1)>> \o Split(SubSeq(s, i + 1, Len(s)), sep)

\* str.strip() as int() and float() apply it to their argument
RECURSIVE Strip(_)
Strip(s) ==
    IF s = <<>> THEN s
    ELSE IF s[1] \in Whitespace THEN Strip(Tail(s))
    ELSE IF s[Len(s)] \in Whitespace THEN Strip(SubSeq(s, 1, Len(s) - 1))
    ELSE s

RECURSIVE ParseNat(_)
ParseNat(s) ==
    IF s = <<>> THEN 0
    ELSE ParseNat(SubSeq(s, 1, Len(s) - 1)) * 10 + DigitVal(s[Len(s)])

AllDigits(s) == s # <<>> /\ \A i \in 1..Len(s) : s[i] \in DigitSet
Unsigned(s) == IF s # <<>> /\ s[1] \in {"+", "-"} THEN Tail(s) ELSE s
Sign(s) == IF s # <<>> /\ s[1] = "-" THEN -1 ELSE 1

(***************************************************************************)
(* Python values handed to the handlers: a str read from a datagram, or an *)
(* int, a dict or a list unpickled from an upstream payload.               *)
(***************************************************************************)
VStr(s) == [t |-> "str", v |-> s]
VInt(n) == [t |-> "int", v |-> n]
VDict(d) == [t |-> "dict", v |-> d]

\* int(value): [ok, n]; ok = FALSE is ValueError (str) or TypeError (dict)
PyInt(val) ==
    IF val.t = "int" THEN [ok |-> TRUE, n |-> val.v, exc |-> "none"]
    ELSE IF val.t = "str"
    THEN LET s == Strip(val.v)
         IN  IF AllDigits(Unsigned(s))
             THEN [ok |-> TRUE, n |-> Sign(s) * ParseNat(Unsigned(s)),
                   exc |-> "none"]
             ELSE [ok |-> FALSE, n |-> 0, exc |-> "ValueError"]
    ELSE [ok |-> FALSE, n |-> 0, exc |-> "TypeError"]

\* a float is held as a count of thousandths
FloatScale == 1000

\* the first three decimals of a fraction, as thousandths
Frac3(s) ==
    LET d(i) == IF i <= Len(s) THEN DigitVal(s[i]) ELSE 0
    IN  d(1) * 100 + d(2) * 10 + d(3)

\* float(value) for plain decimal literals: [ok, x]; ok = FALSE is ValueError
PyFloat(val) ==
    IF val.t = "int" THEN [ok |-> TRUE, x |-> val.v * FloatScale, exc |-> "none"]
    ELSE IF val.t = "str"
    THEN LET s == Strip(val.v)
             u == Unsigned(s)
             p == Split(u, ".")
             wellformed ==
                 /\ Len(p) \in {1, 2}
                 /\ \A i \in 1..Len(p) : p[i] = <<>> \/ AllDigits(p[i])
                 /\ \E i \in 1..Len(p) : p[i] # <<>>
         IN  IF wellformed
             THEN [ok |-> TRUE,
                   x |-> Sign(s) * (ParseNat(p[1]) * FloatScale
                                    + (IF Len(p) = 2 THEN Frac3(p[2]) ELSE 0)),
                   exc |-> "none"]
             ELSE [ok |-> FALSE, x |-> 0, exc |-> "ValueError"]
    ELSE [ok |-> FALSE, x |-> 0, exc |-> "TypeError"]

(***************************************************************************)
(* Regular expressions of controller.py, matched as Python's re matches    *)
(* the pattern strings as they are written.  '^' matches only at the start *)
(* of the subject.                                                         *)
(***************************************************************************)
AtStart(pos) == pos = 1

\* SAMPLE_RATE = re.compile(u'/^@([\d\.]+)/'), SAMPLE_RATE.match(s)
SAMPLE_RATE_match(s) ==
    /\ Len(s) >= 1 /\ s[1] = "/"
    /\ AtStart(2)
    /\ Len(s) >= 2 /\ s[2] = "@"
    /\ \E n \in 1..Len(s) :
          /\ 3 + n <= Len(s)
          /\ \A i \in 3..(2 + n) : s[i] \in DigitSet \cup {"."}
          /\ s[3 + n] = "/"

\* SIGNED_GAUGE = re.compile(u'/^[-+]/'), SIGNED_GAUGE.match(s)
SIGNED_GAUGE_match(s) ==
    /\ Len(s) >= 1 /\ s[1] = "/"
    /\ AtStart(2)
    /\ Len(s) >= 3 /\ s[2] \in {"-", "+"} /\ s[3] = "/"

\* the character class [^a-zA-Z_\-0-9\.]
InvalidChar(c) == c \notin Lower \cup Upper \cup DigitSet \cup {"_", "-", "."}

\* number of leading whitespace characters of s from index i on
RECURSIVE WsRun(_, _)
WsRun(s, i) ==
    IF i <= Len(s) /\ s[i] \in Whitespace THEN 1 + WsRun(s, i + 1) ELSE 0

\* the length of the match of a FIXUP pattern at index i of s, 0 when none:
\*   INVALID    r'/[^a-zA-Z_\-0-9\.]/g'
\*   SLASH      r'/\//g'
\*   WHITESPACE r'/\s+/g'
MatchLen(pat, s, i) ==
    LET at(j, c) == j <= Len(s) /\ s[j] = c
    IN  CASE pat = "INVALID" ->
               IF /\ at(i, "/") /\ i + 1 <= Len(s) /\ InvalidChar(s[i + 1])
                  /\ at(i + 2, "/") /\ at(i + 3, "g")
               THEN 4 ELSE 0
          [] pat = "SLASH" ->
               IF at(i, "/") /\ at(i + 1, "/") /\ at(i + 2, "/") /\ at(i + 3, "g")
               THEN 4 ELSE 0
          [] pat = "WHITESPACE" ->
               LET n == WsRun(s, i + 1)
               IN  IF at(i, "/") /\ n >= 1 /\ at(i + 1 + n, "/")
                      /\ at(i + 2 + n, "g")
                   THEN n + 3 ELSE 0

\* pattern.sub(replacement, s): leftmost non-overlapping matches replaced
RECURSIVE ReSubFrom(_, _, _, _)
ReSubFrom(pat, repl, s, i) ==
    IF i > Len(s) THEN <<>>
    ELSE LET n == MatchLen(pat, s, i)
         IN  IF n > 0
             THEN repl \o ReSubFrom(pat, repl, s, i + n)
             ELSE <<s[i]>> \o ReSubFrom(pat, repl, s, i + 1)

FIXUP == <<[pattern |-> "INVALID", replacement |-> <<>>],
           [pattern |-> "SLASH", replacement |-> <<"-">>],
           [pattern |-> "WHITESPACE", replacement |-> <<"_">>]>>

\* for pattern, replacement in FIXUP: key = pattern.sub(replacement, key)
RECURSIVE ApplyFixup(_, _)
ApplyFixup(key, i) ==
    IF i > Len(FIXUP) THEN key
    ELSE ApplyFixup(ReSubFrom(FIXUP[i].pattern, FIXUP[i].replacement, key, 1),
                    i + 1)
NormalizeKey(key) == ApplyFixup(key, 1)

(***************************************************************************)
(* Dictionaries                                                            *)
(***************************************************************************)
EmptyDict == [x \in {} |-> 0]
Put(d, k, v) == [x \in DOMAIN d \cup {k} |-> IF x = k THEN v ELSE d[x]]

\* A nested dict of internal metrics, {metric_type: {host: {name: value}}}
\* and deeper, is held flat: nodes are the key paths that hold a mapping,
\* leaves maps the key paths that hold a value to the value.
IsPrefix(p, q) == Len(p) <= Len(q) /\ SubSeq(q, 1, Len(p)) = p
Tree(nodes, leaves) == [nodes |-> nodes, leaves |-> leaves]
HasLeaf(tree, path) == path \in DOMAIN tree.leaves
\* tree[p1]...[pn] = v, the parent mapping being there
SetLeaf(tree, path, v) ==
    Tree({q \in tree.nodes : ~IsPrefix(path, q)},
         [q \in {r \in DOMAIN tree.leaves : ~IsPrefix(path, r)} \cup {path} |->
              IF q = path THEN v ELSE tree.leaves[q]])
\* tree[p1]...[pn] = dict(), the parent mapping being there
SetNode(tree, path) ==
    Tree({q \in tree.nodes : ~IsPrefix(path, q)} \cup {path},
         [q \in {r \in DOMAIN tree.leaves : ~IsPrefix(path, r)} |->
              tree.leaves[q]])

\* Defaults and internal stats constants
FLUSH_INTERVAL == 300
METRICS_BAD_STATS_RECEIVED == "bad_lines_seen"
METRICS_BACKEND == "backend"
METRICS_CONTROLLER == "controller"
METRICS_COUNTER == "counters"
METRICS_DELIVERY_TIME == "delivery_time"
METRICS_GAUGE == "gauges"
METRICS_INTERNAL == "internal"
METRICS_PACKETS_RECEIVED == "packets_received"
METRICS_PROCESSING_TIME == "processing_time"
METRICS_SET == "sets"
METRICS_SNAPSHOT_TIME == "snapshot_time"
METRICS_TIMER == "timers"
METRICS_DOWNSTREAM_PACKETS_RECEIVED == "downstream_packets_received"
METRICS_DOWNSTREAM_PAYLOADS_RECEIVED == "downstream_payloads_received"
METRICS_BACKEND_DELIVERY_DURATION(name) == "delivery." \o name \o ".duration_ms"

\* hostname() of the machine the controller runs on, and of a peer
host == "h1"
PeerHost == "h2"

\* Cardiff.new_int_metric_dict on the machine h
int_metric_dict(h) ==
    Tree({<<METRICS_BACKEND>>, <<METRICS_BACKEND, h>>,
          <<METRICS_CONTROLLER>>, <<METRICS_CONTROLLER, h>>}, EmptyDict)
new_int_metric_dict == int_metric_dict(host)

(***************************************************************************)
(* The live state as one record, and the result of a call: the state it    *)
(* leaves and the exception it raised ("none" when it returned).           *)
(***************************************************************************)
Live == [counters |-> counters, gauges |-> gauges, sets |-> sets,
         timers |-> timers, internal_counters |-> internal_counters,
         internal_gauges |-> internal_gauges,
         internal_timers |-> internal_timers]
Ret(L) == [st |-> L, exc |-> "none"]
Raise(L, e) == [st |-> L, exc |-> e]
\* r, and then F on the state r left unless r raised
Then(r, F(_)) == IF r.exc # "none" THEN r ELSE F(r.st)

\* time.time(), a float
time_time == now

\* Cardiff.internal_incr
internal_incr(L, key, value, metric_type) ==
    LET path == <<metric_type, host, key>>
        t == L.internal_counters
    IN  IF HasLeaf(t, path)
        THEN Ret([L EXCEPT !.internal_counters =
                     SetLeaf(t, path, t.leaves[path] + value)])
        ELSE IF path \in t.nodes THEN Raise(L, "TypeError")
        ELSE IF <<metric_type, host>> \in t.nodes
        THEN Ret([L EXCEPT !.internal_counters = SetLeaf(t, path, value)])
        ELSE Raise(L, "KeyError")

\* Cardiff.internal_gauge
internal_gauge(L, name, value, metric_type) ==
    LET t == L.internal_gauges
    IN  IF <<metric_type, host>> \in t.nodes
        THEN Ret([L EXCEPT !.internal_gauges =
                     SetLeaf(t, <<metric_type, host, name>>, value)])
        ELSE IF <<metric_type>> \in t.nodes
        THEN Ret([L EXCEPT !.internal_gauges =
                     SetLeaf(SetNode(t, <<metric_type, host>>),
                             <<METRICS_CONTROLLER, host, name>>, value)])
        ELSE Raise(L, "KeyError")

\* Cardiff.internal_timer: the duration in ms since start_time is appended
internal_timer(L, key, start_time, metric_type) ==
    LET path == <<metric_type, host, key>>
        t == L.internal_timers
        duration == (time_time - start_time) * 1000
    IN  IF HasLeaf(t, path)
        THEN Ret([L EXCEPT !.internal_timers =
                     SetLeaf(t, path, Append(t.leaves[path], duration))])
        ELSE IF path \in t.nodes THEN Raise(L, "AttributeError")
        ELSE IF <<metric_type, host>> \in t.nodes
        THEN Ret([L EXCEPT !.internal_timers = SetLeaf(t, path, <<duration>>)])
        ELSE Raise(L, "KeyError")

(***************************************************************************)
(* The aggregator                                                          *)
(***************************************************************************)
\* an incr that sets the counter to the value
incr_overwrite(L, key, value) ==
    [L EXCEPT !.counters = Put(L.counters, key, value)]

\* Cardiff.incr
incr(L, key, value) ==
    [L EXCEPT !.counters =
        Put(L.counters, key,
            IF key \in DOMAIN L.counters THEN L.counters[key] + value
            ELSE value)]

\* 1 / sample_size: integer division for the int default, and for a float
\* rate (thousandths) the inverse where it is integral (0.5 -> 2, 0.1 -> 10)
InvSample(sample_size) ==
    IF sample_size.t = "int" THEN 1 \div sample_size.v
    ELSE FloatScale \div sample_size.v

\* a handle_counter that counts the samples, whatever their value
handle_counter_counts_samples(L, key, value, sample_size) ==
    internal_incr(incr(L, key, 1), METRICS_COUNTER, 1, METRICS_CONTROLLER)

\* Cardiff.handle_counter
handle_counter(L, key, value, sample_size) ==
    LET i == PyInt(value)
    IN  IF ~i.ok THEN Raise(L, i.exc)
        ELSE IF sample_size.v = 0 THEN Raise(L, "ZeroDivisionError")
        ELSE internal_incr(incr(L, key, i.n * InvSample(sample_size)),
                           METRICS_COUNTER, 1, METRICS_CONTROLLER)

\* a handle_gauge that rebinds the map to the one key: self.gauges = {key: N}
handle_gauge_rebinds_map(L, key, value) ==
    LET i == PyInt(value)
    IN  IF value.t # "str" THEN Raise(L, "TypeError")
        ELSE IF ~i.ok THEN Raise(L, i.exc)
        ELSE internal_incr([L EXCEPT !.gauges = Put(EmptyDict, key, i.n)],
                           METRICS_GAUGE, 1, METRICS_CONTROLLER)

\* Cardiff.handle_gauge
handle_gauge(L, key, value) ==
    LET L1 == IF key \in DOMAIN L.gauges THEN L
              ELSE [L EXCEPT !.gauges = Put(L.gauges, key, 0)]
        i == PyInt(value)
    IN  IF value.t # "str" THEN Raise(L1, "TypeError")
        ELSE IF ~i.ok THEN Raise(L1, i.exc)
        ELSE internal_incr(
                 [L1 EXCEPT !.gauges =
                     Put(L1.gauges, key,
                         IF SIGNED_GAUGE_match(value.v)
                         THEN L1.gauges[key] + i.n
                         ELSE i.n)],
                 METRICS_GAUGE, 1, METRICS_CONTROLLER)

\* the dict key a hashable value makes: a str is itself, an int is set apart
\* from every str
IntKey(n) == <<"int", ToString(n)>>
DictKey(value) == IF value.t = "int" THEN IntKey(value.v) ELSE value.v

\* a handle_set that counts its sample under 'counters'
handle_set_counted_as_counter(L, key, value) ==
    LET L1 == IF key \in DOMAIN L.sets THEN L
              ELSE [L EXCEPT !.sets = Put(L.sets, key, EmptyDict)]
        k == DictKey(value)
    IN  IF value.t \notin {"str", "int"} THEN Raise(L1, "TypeError")
        ELSE internal_incr(
                 [L1 EXCEPT !.sets =
                     Put(L1.sets, key,
                         IF k \in DOMAIN L1.sets[key]
                         THEN Put(L1.sets[key], k, L1.sets[key][k] + 1)
                         ELSE Put(EmptyDict, k, 1))],
                 METRICS_COUNTER, 1, METRICS_CONTROLLER)

\* Cardiff.handle_set
handle_set(L, key, value) ==
    LET L1 == IF key \in DOMAIN L.sets THEN L
              ELSE [L EXCEPT !.sets = Put(L.sets, key, EmptyDict)]
        k == DictKey(value)
    IN  IF value.t \notin {"str", "int"} THEN Raise(L1, "TypeError")
        ELSE internal_incr(
                 [L1 EXCEPT !.sets =
                     Put(L1.sets, key,
                         IF k \in DOMAIN L1.sets[key]
                         THEN Put(L1.sets[key], k, L1.sets[key][k] + 1)
                         ELSE Put(EmptyDict, k, 1))],
                 METRICS_SET, 1, METRICS_CONTROLLER)

\* the float(value) appended `times` times to timers[key]
RECURSIVE AppendTimes(_, _, _)
AppendTimes(seq, x, times) ==
    IF times <= 0 THEN seq ELSE AppendTimes(Append(seq, x), x, times - 1)

\* Cardiff.handle_timer
handle_timer(L, key, value, sample_size) ==
    LET size == IF sample_size.t = "int" THEN sample_size.v
                ELSE sample_size.v \div FloatScale
        times == IF size < 1 THEN 1 ELSE size
        f == PyFloat(value)
        old == IF key \in DOMAIN L.timers THEN L.timers[key] ELSE <<>>
    IN  IF ~f.ok THEN Raise(L, f.exc)
        ELSE internal_incr(
                 [L EXCEPT !.timers = Put(L.timers, key,
                                          AppendTimes(old, f.x, times))],
                 METRICS_TIMER, 1, METRICS_CONTROLLER)

(***************************************************************************)
(* The UDP line parser                                                     *)
(***************************************************************************)
\* Cardiff.process_data for data holding no newline
process_line(L, data) ==
    LET start_time == time_time
        parts == Split(data, "|")
        bits == Split(parts[1], ":")
        key == NormalizeKey(bits[1])
        rest == IF Len(bits) = 1 THEN <<<<"1">>>> ELSE Tail(bits)
        value == IF rest[1] = <<>> THEN VInt(0) ELSE VStr(rest[1])
        rate == IF Len(parts) = 3 THEN PyFloat(VStr(parts[3]))
                ELSE [ok |-> TRUE, x |-> 0, exc |-> "none"]
        sample == IF Len(parts) = 3 THEN [t |-> "float", v |-> rate.x]
                  ELSE VInt(1)
        timed(M) == internal_timer(M, METRICS_PROCESSING_TIME, start_time,
                                   METRICS_CONTROLLER)
        bad(M) == internal_incr(M, METRICS_BAD_STATS_RECEIVED, 1,
                                METRICS_CONTROLLER)
        counted(M) ==
            IF Len(parts) = 3 /\ ~SAMPLE_RATE_match(parts[3])
            THEN Then(timed(M), bad)
            ELSE IF Len(parts) = 3 /\ ~rate.ok THEN Raise(M, rate.exc)
            ELSE IF Len(parts) < 2 THEN Raise(M, "IndexError")
            ELSE Then(CASE parts[2] = <<"c">> ->
                             handle_counter(M, key, value, sample)
                        [] parts[2] = <<"g">> -> handle_gauge(M, key, value)
                        [] parts[2] = <<"m", "s">> ->
                             handle_timer(M, key, value, sample)
                        [] parts[2] = <<"s">> -> handle_set(M, key, value)
                        [] OTHER -> bad(M),
                      timed)
    IN  Then(internal_incr(L, METRICS_PACKETS_RECEIVED, 1, METRICS_CONTROLLER),
             counted)

\* [self.process_data(value) for value in data.split('\n')]: the lines in
\* order, up to the first that raises
RECURSIVE process_lines(_, _, _)
process_lines(L, lines, i) ==
    IF i > Len(lines) THEN Ret(L)
    ELSE LET r == process_line(L, lines[i])
         IN  IF r.exc # "none" THEN r ELSE process_lines(r.st, lines, i + 1)

\* Cardiff.process_data
process_data(L, data) ==
    IF \E i \in 1..Len(data) : data[i] = "\n"
    THEN LET multi(M) == process_lines(M, Split(data, "\n"), 1)
         IN  Then(internal_incr(L, METRICS_PACKETS_RECEIVED, 1,
                                METRICS_CONTROLLER), multi)
    ELSE process_line(L, data)

(***************************************************************************)
(* The snapshot                                                            *)
(***************************************************************************)
\* internal_gauge for each (name, value) of gs in turn
RECURSIVE internal_gauges_set(_, _, _)
internal_gauges_set(L, gs, i) ==
    IF i > Len(gs) THEN Ret(L)
    ELSE LET r == internal_gauge(L, gs[i][1], gs[i][2], METRICS_CONTROLLER)
         IN  IF r.exc # "none" THEN r ELSE internal_gauges_set(r.st, gs, i + 1)

\* Cardiff.add_resource_usage on Linux: usage is resource.getrusage(RUSAGE_SELF)
add_resource_usage(L, usage) ==
    internal_gauges_set(L,
        <<<<"blocked_input", usage.ru_inblock>>,
          <<"blocked_output", usage.ru_oublock>>,
          <<"cpu_time_user", usage.ru_utime>>,
          <<"cpu_time_system", usage.ru_stime>>,
          <<"memory_usage", usage.ru_maxrss * 1024>>,
          <<"forced_context_switches", usage.ru_nivcsw>>>>, 1)

NoStats == [timestamp |-> 0, counters |-> EmptyDict, gauges |-> EmptyDict,
            sets |-> EmptyDict, timers |-> EmptyDict,
            int_counters |-> new_int_metric_dict,
            int_gauges |-> new_int_metric_dict,
            int_timers |-> new_int_metric_dict]

\* a snapshot that empties the live timers without copying them
snapshot_drops_timers(L) ==
    LET start_time == time_time
        L1 == [L EXCEPT !.counters = EmptyDict, !.gauges = EmptyDict,
                        !.sets = EmptyDict, !.timers = EmptyDict,
                        !.internal_counters = new_int_metric_dict,
                        !.internal_gauges = new_int_metric_dict]
        r == internal_timer(L1, METRICS_SNAPSHOT_TIME, start_time,
                            METRICS_CONTROLLER)
    IN  IF r.exc # "none"
        THEN [st |-> r.st, exc |-> r.exc, stats |-> NoStats]
        ELSE [st |-> [r.st EXCEPT !.internal_timers = new_int_metric_dict],
              exc |-> "none",
              stats |-> [timestamp |-> time_time \div FloatScale,
                         counters |-> L.counters, gauges |-> L.gauges,
                         sets |-> L.sets, timers |-> EmptyDict,
                         int_counters |-> L.internal_counters,
                         int_gauges |-> L.internal_gauges,
                         int_timers |-> r.st.internal_timers]]

\* a snapshot that copies the gauges and leaves them in the live map
snapshot_keeps_gauges(L) ==
    LET start_time == time_time
        L1 == [L EXCEPT !.counters = EmptyDict,
                        !.sets = EmptyDict, !.timers = EmptyDict,
                        !.internal_counters = new_int_metric_dict,
                        !.internal_gauges = new_int_metric_dict]
        r == internal_timer(L1, METRICS_SNAPSHOT_TIME, start_time,
                            METRICS_CONTROLLER)
    IN  IF r.exc # "none"
        THEN [st |-> r.st, exc |-> r.exc, stats |-> NoStats]
        ELSE [st |-> [r.st EXCEPT !.internal_timers = new_int_metric_dict],
              exc |-> "none",
              stats |-> [timestamp |-> time_time \div FloatScale,
                         counters |-> L.counters, gauges |-> L.gauges,
                         sets |-> L.sets, timers |-> L.timers,
                         int_counters |-> L.internal_counters,
                         int_gauges |-> L.internal_gauges,
                         int_timers |-> r.st.internal_timers]]

\* Cardiff.snapshot: [st, exc, stats]
snapshot(L) ==
    LET start_time == time_time
        L1 == [L EXCEPT !.counters = EmptyDict, !.gauges = EmptyDict,
                        !.sets = EmptyDict, !.timers = EmptyDict,
                        !.internal_counters = new_int_metric_dict,
                        !.internal_gauges = new_int_metric_dict]
        r == internal_timer(L1, METRICS_SNAPSHOT_TIME, start_time,
                            METRICS_CONTROLLER)
    IN  IF r.exc # "none"
        THEN [st |-> r.st, exc |-> r.exc, stats |-> NoStats]
        ELSE [st |-> [r.st EXCEPT !.internal_timers = new_int_metric_dict],
              exc |-> "none",
              stats |-> [timestamp |-> time_time \div FloatScale,
                         counters |-> L.counters, gauges |-> L.gauges,
                         sets |-> L.sets, timers |-> L.timers,
                         int_counters |-> L.internal_counters,
                         int_gauges |-> L.internal_gauges,
                         int_timers |-> r.st.internal_timers]]

(***************************************************************************)
(* The upstream sink                                                       *)
(***************************************************************************)
RECURSIVE NatToStr(_)
NatToStr(n) ==
    IF n < 10 THEN <<Digits[n + 1]>>
    ELSE NatToStr(n \div 10) \o <<Digits[(n % 10) + 1]>>
\* '%s' % n for an int
IntToStr(n) == IF n < 0 THEN <<"-">> \o NatToStr(-n) ELSE NatToStr(n)

\* UpstreamBackend.sign_gauges
sign_gauges(values) ==
    [key \in DOMAIN values |->
        IF values[key] < 0 THEN <<"-">> \o IntToStr(values[key])
        ELSE IF values[key] > 0 THEN <<"+">> \o IntToStr(values[key])
        ELSE <<"0">>]

\* UpstreamBackend.get_metrics, on a sink of the machine `hostname` that has
\* seen `excs` socket errors, the last at the time `last_exc_ts`
get_metrics(hostname, excs, last_exc_ts, S) ==
    LET own == <<METRICS_BACKEND, hostname>>
        ic == SetLeaf(SetNode(SetNode(S.int_counters, own),
                              own \o <<"upstream">>),
                      own \o <<"upstream", "exceptions">>, excs)
        ig == SetLeaf(SetLeaf(SetNode(SetNode(S.int_gauges, own),
                                      own \o <<"upstream">>),
                              own \o <<"upstream", "last_exception_timestamp">>,
                              last_exc_ts),
                      own \o <<"upstream", "flush_timestamp">>, S.timestamp)
    IN  [host |-> hostname,
         counters |-> S.counters,
         gauges |-> sign_gauges(S.gauges),
         sets |-> S.sets,
         timers |-> S.timers,
         internal |-> [counters |-> ic, gauges |-> ig,
                       timers |-> S.int_timers]]

(***************************************************************************)
(* Serialization.  A byte string is held as what the deserializer makes of *)
(* it: whether it is a pickle, and of which object.                        *)
(***************************************************************************)
\* pickle.dumps(obj) followed by chr(FRAME_END): the frame the upstream sink
\* sends
pickle_dumps(obj) == [pickled |-> TRUE, obj |-> obj]
\* a deserializer that takes any bytes
pickle_loads_unchecked(data) == [exc |-> "none", value |-> data.obj]
\* pickle.loads(data): [exc, value]; bytes that are no pickle raise
pickle_loads(data) ==
    IF data.pickled THEN [exc |-> "none", value |-> data.obj]
    ELSE [exc |-> "UnpicklingError", value |-> data.obj]

(***************************************************************************)
(* The upstream merge                                                      *)
(***************************************************************************)
\* d.update(u): what d held under a top-level key of u is lost
dict_update(d, u) ==
    LET top == {p[1] : p \in u.nodes \cup DOMAIN u.leaves}
        kept == {q \in DOMAIN d.leaves : q[1] \notin top}
    IN  [tree |-> Tree({q \in d.nodes : q[1] \notin top} \cup u.nodes,
                       [q \in kept \cup DOMAIN u.leaves |->
                           IF q \in DOMAIN u.leaves THEN u.leaves[q]
                           ELSE d.leaves[q]]),
         exc |-> "none"]

\* merge_dicts(d, u) on nested dicts held flat: [tree, exc].  A value of u
\* replaces what d holds at its path and below; a mapping of u is merged into
\* the mapping d holds there.  Where d holds a value and u a non-empty
\* mapping, the item assignment on the value raises TypeError; the entries
\* of u outside that mapping are taken as merged before it.
merge_dicts(d, u) ==
    LET upaths == u.nodes \cup DOMAIN u.leaves
        clash(p) == /\ p \in u.nodes /\ p \in DOMAIN d.leaves
                    /\ \E q \in upaths : IsPrefix(p, q) /\ q # p
        under_clash(q) == \E p \in u.nodes : clash(p) /\ IsPrefix(p, q)
        uleaves == {p \in DOMAIN u.leaves : ~under_clash(p)}
        shadow(q) == \E p \in uleaves : IsPrefix(p, q)
        dleaves == {q \in DOMAIN d.leaves : ~shadow(q)}
    IN  [tree |-> Tree({q \in d.nodes : ~shadow(q)}
                       \cup {p \in u.nodes :
                                p \notin DOMAIN d.leaves /\ ~under_clash(p)},
                       [q \in dleaves \cup uleaves |->
                           IF q \in uleaves THEN u.leaves[q] ELSE d.leaves[q]]),
         exc |-> IF \E p \in u.nodes : clash(p) THEN "TypeError" ELSE "none"]

\* the orders in which `for key in d.keys()` may visit the keys of d
Orders(S) ==
    {o \in [1..Cardinality(S) -> S] : \A i, j \in DOMAIN o : o[i] = o[j] => i = j}

\* one iteration of a loop of downstream_data over the keys of `kind`
downstream_key(L, kind, key, values) ==
    LET packet(M) == internal_incr(M, METRICS_DOWNSTREAM_PACKETS_RECEIVED, 1,
                                   METRICS_CONTROLLER)
        extend(M) ==
            internal_incr(
                [M EXCEPT !.timers =
                    Put(M.timers, key,
                        (IF key \in DOMAIN M.timers THEN M.timers[key]
                         ELSE <<>>) \o values[key])],
                METRICS_TIMER, Len(values[key]), METRICS_CONTROLLER)
    IN  Then(CASE kind = METRICS_COUNTER ->
                    handle_counter(L, key, VInt(values[key]), VInt(1))
               [] kind = METRICS_GAUGE ->
                    handle_gauge(L, key, VStr(values[key]))
               [] kind = METRICS_SET ->
                    handle_set(L, key, VDict(values[key]))
               [] kind = METRICS_TIMER -> extend(L),
             packet)

RECURSIVE downstream_keys(_, _, _, _, _)
downstream_keys(L, kind, order, i, values) ==
    IF i > Len(order) THEN Ret(L)
    ELSE LET r == downstream_key(L, kind, order[i], values)
         IN  IF r.exc # "none" THEN r
             ELSE downstream_keys(r.st, kind, order, i + 1, values)

\* Cardiff.downstream_data(**payload), the keys of the payload's dicts being
\* visited in the orders `ord`
downstream_data(L, P, ord) ==
    LET start_time == time_time
        cs(M) == downstream_keys(M, METRICS_COUNTER, ord.counters, 1, P.counters)
        gs(M) == downstream_keys(M, METRICS_GAUGE, ord.gauges, 1, P.gauges)
        ss(M) == downstream_keys(M, METRICS_SET, ord.sets, 1, P.sets)
        ts(M) == downstream_keys(M, METRICS_TIMER, ord.timers, 1, P.timers)
        mc(M) == LET m == merge_dicts(M.internal_counters, P.internal.counters)
                 IN  [st |-> [M EXCEPT !.internal_counters = m.tree],
                      exc |-> m.exc]
        mg(M) == LET m == merge_dicts(M.internal_gauges, P.internal.gauges)
                 IN  [st |-> [M EXCEPT !.internal_gauges = m.tree],
                      exc |-> m.exc]
        mt(M) == LET m == merge_dicts(M.internal_timers, P.internal.timers)
                 IN  [st |-> [M EXCEPT !.internal_timers = m.tree],
                      exc |-> m.exc]
        timed(M) == internal_timer(M, METRICS_PROCESSING_TIME, start_time,
                                   METRICS_CONTROLLER)
    IN  Then(Then(Then(Then(Then(Then(Then(Then(
            internal_incr(L, METRICS_DOWNSTREAM_PAYLOADS_RECEIVED, 1,
                          METRICS_CONTROLLER),
            cs), gs), ss), ts), mc), mg), mt), timed)

KeyOrders(P) ==
    {[counters |-> c, gauges |-> g, sets |-> x, timers |-> t] :
        c \in Orders(DOMAIN P.counters), g \in Orders(DOMAIN P.gauges),
        x \in Orders(DOMAIN P.sets), t \in Orders(DOMAIN P.timers)}

(***************************************************************************)
(* The sinks                                                               *)
(***************************************************************************)
\* the sinks backends.create knows, in the order it appends them (the AMQP
\* sink, whose transport is no code of this repository, is left disabled)
AllBackends == <<"graphite", "logger", "statsd", "upstream">>
\* backends.create: the sinks of the enabled names
create(enabled) == SelectSeq(AllBackends, LAMBDA b : b \in enabled)
\* the sinks of the configuration with the logger and the upstream sink
Backends == <<"logger", "upstream">>
\* that configuration: no flush_interval (0 stands for None)
DefaultConfig ==
    [flush_interval |-> 0,
     backends |-> {Backends[i] : i \in 1..Len(Backends)}]
\* self.backends
backends == create(application_config.backends)
BackendNames == {backends[i] : i \in 1..Len(backends)}

\* LoggerBackend.deliver: the exception it raises on the snapshot S, or "none".
\* calc_set_values iterates the None that list.sort() returns (TypeError) for
\* a set that holds a value; log_sets indexes the calculated {count, count_ps}
\* of one key by the set keys (KeyError).
\* no pickle delivery under way
NoPickling ==
    [pc |-> "idle", call |-> 0, metrics |-> <<>>, all |-> <<>>, sent |-> <<>>,
     start_time |-> 0]

\* nothing logged
NoLogged == [sets |-> EmptyDict, timers |-> EmptyDict]

\* Backend.calc_set_values(set_data): [exc, value].  For a set with values,
\* keys is what list.sort() returns, None, and the loop over it raises
\* TypeError.
calc_set_values(set_data) ==
    IF DOMAIN set_data = {}
    THEN [exc |-> "none", value |-> [count |-> 0, count_ps |-> 0]]
    ELSE [exc |-> "TypeError", value |-> EmptyDict]

\* Backend.set_values(sets): [exc, value]
set_values(values) ==
    IF \E k \in DOMAIN values : calc_set_values(values[k]).exc # "none"
    THEN [exc |-> "TypeError", value |-> EmptyDict]
    ELSE [exc |-> "none",
          value |-> [k \in DOMAIN values |-> calc_set_values(values[k]).value]]

logger_deliver(S) ==
    IF set_values(S.sets).exc # "none" THEN set_values(S.sets).exc
    ELSE IF \E k \in DOMAIN S.sets :
                k \notin {<<"c", "o", "u", "n", "t">>,
                          <<"c", "o", "u", "n", "t", "_", "p", "s">>}
    THEN "KeyError"
    ELSE "none"

(***************************************************************************)
(* The state machine                                                       *)
(***************************************************************************)
\* config.get(field, default)
config_get(field, default) ==
    IF field \in DOMAIN application_config THEN application_config[field]
    ELSE default
PLAINTEXT == "plaintext"
PICKLE == "pickle"
BATCH_SIZE == 300
\* GraphiteBackend.format: an unsupported format is overwritten
format ==
    LET configured == config_get("format", PLAINTEXT)
    IN  IF configured \in {PLAINTEXT, PICKLE} THEN configured ELSE PLAINTEXT
\* GraphiteBackend.batch_size
batch_size == config_get("batch_size", BATCH_SIZE)

\* self.flush_interval, in seconds (a float):
\* application_config.get('flush_interval') or FLUSH_INTERVAL
flush_interval ==
    IF application_config.flush_interval # 0
    THEN application_config.flush_interval
    ELSE FLUSH_INTERVAL * FloatScale
\* the PeriodicCallback's callback_time in ms: self.flush_interval * 1000
callback_time == (flush_interval * 1000) \div FloatScale

\* Cardiff.setup with a configuration of configs: create_empty_stat_attributes
\* and start_timer
InitWith(configs) ==
    /\ application_config \in configs
    /\ counters = EmptyDict /\ gauges = EmptyDict
    /\ sets = EmptyDict /\ timers = EmptyDict
    /\ internal_counters = new_int_metric_dict
    /\ internal_gauges = new_int_metric_dict
    /\ internal_timers = new_int_metric_dict
    /\ now = 0 /\ next_timeout = callback_time
    /\ loop_pc = "idle" /\ stats = NoStats /\ stats_start_time = 0
    /\ to_start = <<>> /\ threads = {}
    /\ tpc = [b \in BackendNames |-> "none"]
    /\ backend_start_time = [b \in BackendNames |-> 0]
    /\ copies = [b \in BackendNames |-> NoStats]
    /\ socket_error = [b \in BackendNames |-> FALSE]
    /\ polls = 0
    /\ exceptions = [b \in BackendNames |-> 0]
    /\ last_exception = [b \in BackendNames |-> 0]
    /\ last_exc = "none"
    /\ prev = Live /\ last_op = [op |-> "setup"]
    /\ interval_log = <<>> /\ flushed_log = <<>>
    /\ merged_log = <<>> /\ epoch_log = <<>>
    /\ n_datagrams = 0 /\ n_flushes = 0 /\ n_merges = 0
    /\ logged = NoLogged
    /\ streams = <<>>
    /\ pickling = NoPickling

\* Cardiff.setup with the logger and the upstream sink configured
Init == InitWith({DefaultConfig})

SetLive(L) ==
    /\ counters' = L.counters /\ gauges' = L.gauges
    /\ sets' = L.sets /\ timers' = L.timers
    /\ internal_counters' = L.internal_counters
    /\ internal_gauges' = L.internal_gauges
    /\ internal_timers' = L.internal_timers

\* UDPServer.read_from_socket: a datagram of D is handed to process_data.
\* An exception it raises is logged by the event loop, which goes on.
Recv(D, max, history) ==
    /\ loop_pc = "idle" /\ n_datagrams + n_merges + n_flushes < max
    /\ \E data \in D :
          LET r == process_data(Live, data)
          IN  /\ SetLive(r.st)
              /\ last_exc' = r.exc
              /\ IF history
                 THEN /\ last_op' = [op |-> "process_data", data |-> data]
                      /\ interval_log' = Append(interval_log, data)
                      /\ prev' = Live
                 ELSE UNCHANGED <<last_op, interval_log, prev>>
    /\ n_datagrams' = n_datagrams + 1
    /\ UNCHANGED <<io_vars, application_config, clock_vars, flush_vars, thread_vars,
                   polls, sink_vars, flushed_log, merged_log, epoch_log,
                   n_flushes, n_merges>>

\* UpstreamConnection.on_data: the payload of a frame of F is unpickled and
\* handed to downstream_data
request_callback(P, ord, history) ==
    LET r == downstream_data(Live, P, ord)
    IN  /\ SetLive(r.st)
        /\ last_exc' = r.exc
        /\ IF history
           THEN /\ last_op' = [op |-> "downstream_data", data |-> P,
                                ord |-> ord]
                /\ merged_log' = Append(merged_log, P)
                /\ prev' = Live
           ELSE UNCHANGED <<last_op, merged_log, prev>>

Merge(F, max, history) ==
    /\ loop_pc = "idle" /\ n_datagrams + n_merges + n_flushes < max
    /\ \E P \in F : \E ord \in KeyOrders(P) : request_callback(P, ord, history)
    /\ n_merges' = n_merges + 1
    /\ UNCHANGED <<io_vars, application_config, clock_vars, flush_vars, thread_vars,
                   polls, sink_vars, interval_log, flushed_log, epoch_log,
                   n_datagrams, n_flushes>>

\* UpstreamServer.handle_stream: a connection is accepted and
\* UpstreamConnection.__init__ asks for one read up to FRAME_END; a stream
\* the peer has closed by then raises StreamClosedError and is closed
handle_stream(max) ==
    /\ loop_pc = "idle" /\ Len(streams) < max
    /\ \E open \in BOOLEAN :
          streams' = Append(streams,
                            [state |-> IF open THEN "reading" ELSE "closed",
                             buffer |-> <<>>, consumed |-> 0, exc |-> "none"])
    /\ UNCHANGED <<logged, pickling, application_config, live_vars, clock_vars,
                   flush_vars, thread_vars, polls, sink_vars, last_exc,
                   hist_vars, count_vars>>

\* the number of frames written on the first i connections so far
RECURSIVE written(_)
written(i) ==
    IF i = 0 THEN 0
    ELSE Len(streams[i].buffer) + streams[i].consumed + written(i - 1)

\* the peer of a connection writes one more frame of W, whether or not the
\* server still reads
PeerWrite(W, max) ==
    /\ written(Len(streams)) < max
    /\ \E i \in 1..Len(streams) : \E data \in W :
          streams' = [streams EXCEPT ![i].buffer = Append(@, data)]
    /\ UNCHANGED <<logged, pickling, application_config, live_vars, clock_vars,
                   flush_vars, thread_vars, polls, sink_vars, last_exc,
                   hist_vars, count_vars>>

\* the stream has a read pending after on_data: none
keep_reading == "reading"
\* UpstreamConnection.close(): the state of the stream after on_data, which
\* asks for no further read and closes it
close == "closed"

\* UpstreamConnection.on_data(data) for the first unread frame of a
\* connection with a read pending: the stream is closed, then the frame is
\* unpickled and the payload handed to downstream_data.  An exception of
\* pickle.loads leaves on_data before the callback.
on_data(history) ==
    /\ loop_pc = "idle"
    /\ \E i \in 1..Len(streams) :
          /\ streams[i].state = "reading" /\ streams[i].buffer # <<>>
          /\ LET data == Head(streams[i].buffer)
                 loaded == pickle_loads(data)
                 closed(exc) ==
                     [streams EXCEPT ![i] =
                         [state |-> close, buffer |-> Tail(@.buffer),
                          consumed |-> @.consumed + 1, exc |-> exc]]
             IN  IF loaded.exc # "none"
                 THEN /\ streams' = closed(loaded.exc)
                      /\ last_exc' = loaded.exc
                      /\ IF history
                         THEN /\ prev' = Live
                              /\ last_op' = [op |-> "on_data", data |-> data]
                         ELSE UNCHANGED <<prev, last_op>>
                      /\ UNCHANGED <<live_vars, merged_log>>
                 ELSE \E ord \in KeyOrders(loaded.value) :
                         /\ request_callback(loaded.value, ord, history)
                         /\ streams' = closed(last_exc')
    /\ n_merges' = n_merges + 1
    /\ UNCHANGED <<logged, pickling, application_config, clock_vars, flush_vars,
                   thread_vars, polls, sink_vars, interval_log, flushed_log,
                   epoch_log, n_datagrams, n_flushes>>

\* The event loop waits for the PeriodicCallback's deadline
Elapse(max) ==
    /\ loop_pc = "idle" /\ n_datagrams + n_merges + n_flushes < max
    /\ now < next_timeout
    /\ now' = next_timeout
    /\ UNCHANGED <<io_vars, application_config, live_vars, next_timeout, flush_vars,
                   thread_vars, polls, sink_vars, last_exc, hist_vars,
                   count_vars>>

\* what getrusage may report
Usages == {[ru_inblock |-> 0, ru_oublock |-> 0, ru_utime |-> 1, ru_stime |-> 1,
            ru_maxrss |-> 2, ru_nivcsw |-> 0]}

\* Cardiff.process_stats up to the snapshot it takes (lines 397-406), run by
\* the PeriodicCallback once the deadline has passed
ProcessStats(max, history) ==
    /\ loop_pc = "idle" /\ n_datagrams + n_merges + n_flushes < max
    /\ now >= next_timeout
    /\ next_timeout' = next_timeout
           + (((now - next_timeout) \div callback_time) + 1) * callback_time
    /\ \E usage \in Usages :
          LET u == add_resource_usage(Live, usage)
              r == snapshot(u.st)
          IN  IF u.exc # "none"
              THEN /\ SetLive(u.st) /\ last_exc' = u.exc
                   /\ n_flushes' = n_flushes + 1
                   /\ UNCHANGED <<flush_vars, interval_log, flushed_log,
                                   merged_log, epoch_log>>
              ELSE IF r.exc # "none"
              THEN /\ SetLive(r.st) /\ last_exc' = r.exc
                   /\ n_flushes' = n_flushes + 1
                   /\ UNCHANGED <<flush_vars, interval_log, flushed_log,
                                   merged_log, epoch_log>>
              ELSE /\ SetLive(r.st) /\ last_exc' = "none"
                   /\ stats' = r.stats
                   /\ stats_start_time' = time_time
                   /\ loop_pc' = "snapshot_taken"
                   /\ to_start' = backends /\ threads' = {}
                   /\ interval_log' = <<>> /\ flushed_log' = interval_log
                   /\ merged_log' = <<>>
                   /\ epoch_log' = IF history
                                    THEN Append(epoch_log, r.stats.timestamp)
                                    ELSE epoch_log
                   /\ UNCHANGED n_flushes
    /\ IF history
       THEN prev' = Live /\ last_op' = [op |-> "process_stats"]
       ELSE UNCHANGED <<prev, last_op>>
    /\ tpc' = [b \in BackendNames |-> "none"]
    /\ copies' = [b \in BackendNames |-> NoStats]
    /\ socket_error' = [b \in BackendNames |-> FALSE]
    /\ logged' = NoLogged
    /\ UNCHANGED <<net_vars, application_config, now, backend_start_time, polls,
                   sink_vars, n_datagrams, n_merges>>

\* process_stats, lines 409-415: one thread per backend is started
StartThread ==
    /\ loop_pc = "snapshot_taken" /\ to_start # <<>>
    /\ tpc' = [tpc EXCEPT ![Head(to_start)] = "started"]
    /\ threads' = threads \cup {Head(to_start)}
    /\ to_start' = Tail(to_start)
    /\ UNCHANGED <<io_vars, application_config, live_vars, clock_vars, loop_pc, stats,
                   stats_start_time, backend_start_time, copies,
                   socket_error, polls, sink_vars, last_exc, hist_vars,
                   count_vars>>

\* a barrier that takes a thread whose sink has returned for one that ended
is_alive_until_delivered(b) == tpc[b] \in {"started", "pickling"}

\* a barrier that gives up a thread that stays in a socket call
is_alive_unless_hung(b) == tpc[b] \in {"started", "pickling", "delivered"}

\* a barrier that takes a thread ended by an exception for a running one
is_alive_when_raised(b) ==
    tpc[b] \in {"started", "pickling", "hung", "delivered", "raised"}

\* thread.is_alive()
is_alive(b) == tpc[b] \in {"started", "pickling", "hung", "delivered"}

\* process_stats, lines 417-419: one turn of the barrier loop
BarrierPoll ==
    /\ \/ loop_pc = "snapshot_taken" /\ to_start = <<>>
       \/ loop_pc = "barrier"
    /\ threads # {}
    /\ LET alive == {b \in threads : is_alive(b)}
       IN  /\ alive # {} => polls < MaxSleeps
           /\ threads' = alive
           /\ polls' = IF alive # {} THEN polls + 1 ELSE polls
    /\ now' = now + 250
    /\ loop_pc' = "barrier"
    /\ UNCHANGED <<io_vars, application_config, live_vars, next_timeout, stats,
                   stats_start_time, to_start, thread_vars, sink_vars,
                   last_exc, hist_vars, count_vars>>

\* process_stats, lines 421-422: the barrier is passed and the tick returns
BarrierExit ==
    /\ \/ loop_pc = "snapshot_taken" /\ to_start = <<>>
       \/ loop_pc = "barrier"
    /\ threads = {}
    /\ LET r == internal_timer(Live, METRICS_DELIVERY_TIME, stats_start_time,
                               METRICS_CONTROLLER)
       IN  SetLive(r.st) /\ last_exc' = r.exc
    /\ loop_pc' = "idle" /\ stats' = NoStats /\ stats_start_time' = 0
    /\ n_flushes' = n_flushes + 1
    /\ logged' = NoLogged
    /\ UNCHANGED <<net_vars, application_config, clock_vars, to_start, threads,
                   thread_vars, polls, sink_vars, hist_vars, n_datagrams,
                   n_merges>>

(***************************************************************************)
(* The delivery threads: Cardiff.deliver_stats, one per backend            *)
(***************************************************************************)
\* list.sort() of calc_timer_values, which sorts the list it is handed
no_sort(timer) == timer
sort(timer) == SortSeq(timer, LAMBDA x, y : x < y)

\* the product of two floats
FMul(x, y) == (x * y) \div FloatScale
None == "None"

\* percentile with the two weights exchanged
percentile_swapped(values, percent) ==
    IF values = <<>> THEN None
    ELSE LET k == (Len(values) - 1) * percent
             floor == (k \div FloatScale) * FloatScale
             ceil == IF k % FloatScale = 0 THEN k ELSE floor + FloatScale
         IN  IF floor = ceil THEN values[(k \div FloatScale) + 1]
             ELSE FMul(values[(floor \div FloatScale) + 1], k - floor)
                  + FMul(values[(ceil \div FloatScale) + 1], ceil - k)

\* Backend.percentile(values, percent) of a sorted list; percent is a float
percentile(values, percent) ==
    IF values = <<>> THEN None
    ELSE LET k == (Len(values) - 1) * percent
             floor == (k \div FloatScale) * FloatScale
             ceil == IF k % FloatScale = 0 THEN k ELSE floor + FloatScale
         IN  IF floor = ceil THEN values[(k \div FloatScale) + 1]
             ELSE FMul(values[(floor \div FloatScale) + 1], ceil - k)
                  + FMul(values[(ceil \div FloatScale) + 1], k - floor)

\* Backend.median(values)
median(values) == percentile(values, FloatScale \div 2)

RECURSIVE sum(_)
sum(values) == IF values = <<>> THEN 0 ELSE Head(values) + sum(Tail(values))

\* count / self.interval: the quotient of two ints when the interval is the
\* default FLUSH_INTERVAL, a float when it is the configured float
count_ps(count) ==
    IF application_config.flush_interval = 0
    THEN (count \div FLUSH_INTERVAL) * FloatScale
    ELSE (count * FloatScale * FloatScale) \div flush_interval

\* Backend.calc_timer_values(timer); the keys '95th' and '90th' are the
\* fields p95 and p90
calc_timer_values(timer) ==
    IF Len(timer) = 0
    THEN [count |-> 0, count_ps |-> 0, min |-> 0, max |-> 0, mean |-> 0,
          total |-> 0, median |-> 0, p95 |-> 0, p90 |-> 0]
    ELSE LET sorted == sort(timer)
             count == Len(sorted)
             total == sum(sorted)
         IN  [count |-> count,
              count_ps |-> count_ps(count),
              min |-> sorted[1],
              max |-> sorted[count],
              mean |-> total \div count,
              total |-> total,
              median |-> median(sorted),
              p95 |-> percentile(sorted, (95 * FloatScale) \div 100),
              p90 |-> percentile(sorted, (90 * FloatScale) \div 100)]

\* the dict Backend.timer_values(timers) returns
calculated(values) == [k \in DOMAIN values |-> calc_timer_values(values[k])]

\* what LoggerBackend.deliver hands to log_sets and, once log_sets has
\* returned, to log_timers for the timers of the arguments S
logger_output(S) ==
    IF set_values(S.sets).exc # "none" THEN NoLogged
    ELSE IF logger_deliver(S) # "none"
    THEN [sets |-> set_values(S.sets).value, timers |-> EmptyDict]
    ELSE [sets |-> set_values(S.sets).value, timers |-> calculated(S.timers)]

\* Backend.timer_values(values): every list of the dict is left sorted
timer_values(values) == [k \in DOMAIN values |-> sort(values[k])]

\* timer_values(int_timers[key][host]) for every key and host: every list of
\* the internal timers is left sorted
int_timer_values(t) ==
    [t EXCEPT !.leaves = [path \in DOMAIN t.leaves |-> sort(t.leaves[path])]]

\* what LoggerBackend.deliver leaves of the arguments S it was handed: the
\* timer lists are sorted once log_sets has returned
logger_arguments(S) ==
    IF logger_deliver(S) # "none" THEN S
    ELSE [S EXCEPT !.timers = timer_values(S.timers),
                   !.int_timers = int_timer_values(S.int_timers)]

\* what UpstreamBackend.get_metrics leaves of the arguments S it was handed:
\* the sink's own counter and gauges are set in int_counters and int_gauges
upstream_arguments(S, excs, last_exc_ts) ==
    LET metrics == get_metrics(host, excs, last_exc_ts, S)
    IN  [S EXCEPT !.int_counters = metrics.internal.counters,
                  !.int_gauges = metrics.internal.gauges]

\* GraphiteBackend.host: config.get('host', 'localhost')
CarbonHost == "localhost"

\* what GraphiteBackend.deliver leaves of the arguments S it was handed:
\* timer_values sorts the timers before the connect; deliver_internal_stats,
\* reached when `internal` (the connect and every send before it went
\* through), follows the sort of the internal timers and sets the sink's own
\* counter and gauges under the Carbon host
graphite_arguments(S, internal, excs, last_exc_ts, start_time) ==
    LET own == <<METRICS_BACKEND, CarbonHost>>
        last_flush == time_time \div FloatScale
        ic == SetLeaf(SetNode(SetNode(S.int_counters, own),
                              own \o <<"graphite">>),
                      own \o <<"graphite", "exceptions">>, excs)
        ig == SetLeaf(SetLeaf(SetLeaf(
                  SetNode(SetNode(S.int_gauges, own), own \o <<"graphite">>),
                  own \o <<"graphite", "last_exception_timestamp">>,
                  last_exc_ts),
                  own \o <<"graphite", "flush_timestamp">>, last_flush),
                  own \o <<"graphite", "time_spent">>,
                  (last_flush * FloatScale - start_time) * 1000)
        sorted == [S EXCEPT !.timers = timer_values(S.timers)]
    IN  IF internal
        THEN [sorted EXCEPT !.int_timers = int_timer_values(S.int_timers),
                            !.int_counters = ic, !.int_gauges = ig]
        ELSE sorted

\* StatsdBackend.deliver: the exception the formatting of the snapshot S
\* raises, or "none".  format_timers divides by the length of each timer list.
statsd_deliver(S) ==
    IF \E k \in DOMAIN S.timers : Len(S.timers[k]) = 0
    THEN "ZeroDivisionError" ELSE "none"

\* arguments that are the coordinator's snapshot itself
no_copy(b, S) == [owner |-> "process_stats", value |-> S]

\* the arguments deliver_stats hands to the sink of backend b: deep copies of
\* the snapshot S, objects no one else holds
deepcopy(b, S) == [owner |-> b, value |-> S]

\* backend.deliver's arguments in deliver_stats, lines 140-147
arguments(b) == deepcopy(b, stats)

\* the in-place writes of a sink to its arguments `args` leave them as
\* `value`; they go to the object the arguments are.  The thread's copy lives
\* while `held` (deliver has returned and the thread has not ended).
Mutate(args, value, held) ==
    IF args.owner = "process_stats"
    THEN stats' = value /\ UNCHANGED copies
    ELSE /\ copies' = [copies EXCEPT ![args.owner] =
                          IF held THEN value ELSE NoStats]
         /\ UNCHANGED stats

\* the variables of process_stats no delivery thread holds
loop_vars == <<loop_pc, stats_start_time, to_start, threads>>

\* deliver_stats, lines 138-147, for the logger: LoggerBackend.deliver on a
\* deep copy of the snapshot; an exception ends the thread
LoggerDeliver ==
    /\ "logger" \in BackendNames /\ tpc["logger"] = "started"
    /\ LET args == arguments("logger")
           exc == logger_deliver(args.value)
       IN  /\ Mutate(args, logger_arguments(args.value), exc = "none")
           /\ logged' = logger_output(args.value)
           /\ IF exc = "none"
              THEN /\ tpc' = [tpc EXCEPT !["logger"] = "delivered"]
                   /\ backend_start_time' =
                          [backend_start_time EXCEPT !["logger"] = time_time]
              ELSE /\ tpc' = [tpc EXCEPT !["logger"] = "raised"]
                   /\ UNCHANGED backend_start_time
    /\ UNCHANGED <<net_vars, application_config, live_vars, clock_vars,
                   loop_vars, socket_error, polls, sink_vars, last_exc,
                   hist_vars, count_vars>>

\* deliver_stats, lines 138-147, for the upstream sink:
\* UpstreamBackend.deliver on a deep copy of the snapshot.  The connect and
\* the send each succeed or end in socket.error; the frame that is sent is
\* get_metrics(host, exceptions, last_exception, stats).
UpstreamDeliver ==
    /\ "upstream" \in BackendNames /\ tpc["upstream"] = "started"
    /\ \E connected, sent \in BOOLEAN :
          IF connected /\ sent
          THEN UNCHANGED <<exceptions, last_exception, socket_error>>
          ELSE /\ exceptions' = [exceptions EXCEPT !["upstream"] = @ + 1]
               /\ last_exception' =
                      [last_exception EXCEPT !["upstream"] = time_time]
               /\ socket_error' = [socket_error EXCEPT !["upstream"] = TRUE]
    /\ LET args == arguments("upstream")
       IN  Mutate(args,
                  upstream_arguments(args.value, exceptions["upstream"],
                                     last_exception["upstream"]),
                  TRUE)
    /\ tpc' = [tpc EXCEPT !["upstream"] = "delivered"]
    /\ backend_start_time' =
           [backend_start_time EXCEPT !["upstream"] = time_time]
    /\ UNCHANGED <<io_vars, application_config, live_vars, clock_vars, loop_vars, polls,
                   last_exc, hist_vars, count_vars>>

\* deliver_stats, lines 138-147, for the Graphite sink:
\* GraphiteBackend.deliver on a deep copy of the snapshot.  A socket.error of
\* the connect is counted and ends the delivery; a socket.error of a send,
\* which no handler catches, ends the thread; deliver_internal_stats resets
\* the counter once everything is sent.
GraphiteDeliver ==
    /\ "graphite" \in BackendNames /\ tpc["graphite"] = "started"
    /\ format = PLAINTEXT
    /\ \E connected, sent \in BOOLEAN :
          LET args == arguments("graphite")
              left == graphite_arguments(args.value, connected /\ sent,
                                         exceptions["graphite"],
                                         last_exception["graphite"],
                                         time_time)
          IN  /\ Mutate(args, left, ~connected \/ sent)
              /\ socket_error' =
                     [socket_error EXCEPT !["graphite"] = ~connected \/ ~sent]
              /\ IF ~connected
                 THEN /\ exceptions' =
                             [exceptions EXCEPT !["graphite"] = @ + 1]
                      /\ last_exception' =
                             [last_exception EXCEPT !["graphite"] =
                                 (time_time \div FloatScale) * FloatScale]
                      /\ tpc' = [tpc EXCEPT !["graphite"] = "delivered"]
                 ELSE IF ~sent
                 THEN /\ UNCHANGED <<exceptions, last_exception>>
                      /\ tpc' = [tpc EXCEPT !["graphite"] = "raised"]
                 ELSE /\ exceptions' = [exceptions EXCEPT !["graphite"] = 0]
                      /\ UNCHANGED last_exception
                      /\ tpc' = [tpc EXCEPT !["graphite"] = "delivered"]
              /\ backend_start_time' =
                     IF ~connected \/ sent
                     THEN [backend_start_time EXCEPT !["graphite"] = time_time]
                     ELSE backend_start_time
    /\ UNCHANGED <<io_vars, application_config, live_vars, clock_vars, loop_vars, polls,
                   last_exc, hist_vars, count_vars>>

\* d.keys(): the keys of a dict in the order of the dict, which is fixed for
\* a given dict
RECURSIVE keys(_)
keys(d) ==
    IF DOMAIN d = {} THEN <<>>
    ELSE LET k == CHOOSE x \in DOMAIN d : TRUE
         IN  <<k>> \o keys([x \in DOMAIN d \ {k} |-> d[x]])

\* the keys of the dict calc_timer_values returns
StatNames == {"count", "count_ps", "min", "max", "mean", "total", "median",
              "p95", "p90"}
\* GraphiteBackend.flatten(values) of a dict of such dicts
flatten(values) ==
    [path \in {<<k, n>> : k \in DOMAIN values, n \in StatNames} |->
        values[path[1]][path[2]]]

\* deliver_pickled_values, lines 222-228: the list of
\* (key, (int(timestamp), value)) tuples of the flat values
pickle_metrics(timestamp, values, prefix) ==
    LET ks == keys(values)
    IN  [i \in 1..Len(ks) |->
            [key |-> <<prefix, ks[i]>>, timestamp |-> timestamp,
             value |-> values[ks[i]]]]

\* the flat dict of the internal stats deliver_internal_stats sends: the
\* counters, the gauges, and the timer statistics of the internal timers
\* under the metric type `last`, the one deliver's loop stored last under
\* the host
internal_values(S, last) ==
    LET cs == [p \in {<<METRICS_COUNTER>> \o q : q \in DOMAIN S.int_counters.leaves}
                  |-> S.int_counters.leaves[Tail(p)]]
        gs == [p \in {<<METRICS_GAUGE>> \o q : q \in DOMAIN S.int_gauges.leaves}
                  |-> S.int_gauges.leaves[Tail(p)]]
        mine == {q \in DOMAIN S.int_timers.leaves : q[1] = last}
        ts == [p \in {<<METRICS_TIMER>> \o Tail(q) \o <<n>> :
                          q \in mine, n \in StatNames}
                  |-> calc_timer_values(
                          S.int_timers.leaves[<<last>> \o SubSeq(p, 2, Len(p) - 1)]
                      )[p[Len(p)]]]
    IN  cs @@ gs @@ ts

\* metrics[:n] and metrics[n:] for n >= 0
slice_to(metrics, n) ==
    SubSeq(metrics, 1, IF n < Len(metrics) THEN n ELSE Len(metrics))
\* a slice that leaves out one more
slice_from_next(metrics, n) == SubSeq(metrics, n + 2, Len(metrics))
slice_from(metrics, n) == SubSeq(metrics, n + 1, Len(metrics))

\* the metrics of the call-th of the four calls of deliver_pickled_values
call_metrics(call, S, start_time, last) ==
    CASE call = 1 ->
           pickle_metrics(S.timestamp, S.counters, METRICS_COUNTER)
      [] call = 2 ->
           pickle_metrics(S.timestamp, S.gauges, METRICS_GAUGE)
      [] call = 3 ->
           pickle_metrics(S.timestamp, flatten(calculated(S.timers)),
                          METRICS_TIMER)
      [] call = 4 ->
           pickle_metrics(start_time \div FloatScale,
                          internal_values(S, last), METRICS_INTERNAL)

\* deliver_pickled_values up to its while loop
entered(call, S, start_time, last) ==
    LET metrics == call_metrics(call, S, start_time, last)
    IN  [pc |-> "while", call |-> call, metrics |-> metrics, all |-> metrics,
         sent |-> <<>>, start_time |-> start_time]

\* the variables no step of the pickle delivery changes
pickle_unchanged ==
    <<logged, streams, application_config, live_vars, clock_vars, loop_vars,
      polls, last_exc, hist_vars, count_vars>>

\* deliver_stats, lines 138-147, for the Graphite sink in pickle format:
\* GraphiteBackend.deliver, lines 96-116, up to the while loop of the first
\* deliver_pickled_values.  A socket.error of the connect is counted and
\* ends the delivery.
GraphitePickle ==
    /\ "graphite" \in BackendNames /\ tpc["graphite"] = "started"
    /\ format = PICKLE
    /\ \E connected \in BOOLEAN :
          LET args == arguments("graphite")
              left == graphite_arguments(args.value, FALSE,
                                         exceptions["graphite"],
                                         last_exception["graphite"],
                                         time_time)
          IN  /\ Mutate(args, left, TRUE)
              /\ socket_error' =
                     [socket_error EXCEPT !["graphite"] = ~connected]
              /\ IF ~connected
                 THEN /\ exceptions' =
                             [exceptions EXCEPT !["graphite"] = @ + 1]
                      /\ last_exception' =
                             [last_exception EXCEPT !["graphite"] =
                                 (time_time \div FloatScale) * FloatScale]
                      /\ tpc' = [tpc EXCEPT !["graphite"] = "delivered"]
                      /\ backend_start_time' =
                             [backend_start_time EXCEPT
                                 !["graphite"] = time_time]
                      /\ UNCHANGED pickling
                 ELSE /\ tpc' = [tpc EXCEPT !["graphite"] = "pickling"]
                      /\ pickling' = entered(1, left, time_time,
                                             METRICS_CONTROLLER)
                      /\ UNCHANGED <<exceptions, last_exception,
                                      backend_start_time>>
    /\ UNCHANGED pickle_unchanged

\* deliver_pickled_values, lines 230-236: one turn of the while loop.  A
\* socket.error of the send, which no handler catches, ends the thread.
PickleIterate ==
    /\ "graphite" \in BackendNames /\ tpc["graphite"] = "pickling"
    /\ pickling.pc = "while" /\ pickling.metrics # <<>>
    /\ \E sent \in BOOLEAN :
          IF ~sent
          THEN /\ tpc' = [tpc EXCEPT !["graphite"] = "raised"]
               /\ socket_error' = [socket_error EXCEPT !["graphite"] = TRUE]
               /\ pickling' = NoPickling
               /\ copies' = [copies EXCEPT !["graphite"] = NoStats]
          ELSE /\ pickling' =
                      [pickling EXCEPT
                          !.sent = Append(@, slice_to(pickling.metrics,
                                                      batch_size)),
                          !.metrics =
                              IF Len(pickling.metrics) > batch_size
                              THEN slice_from(pickling.metrics, batch_size)
                              ELSE pickling.metrics,
                          !.pc =
                              IF Len(pickling.metrics) > batch_size
                              THEN "while" ELSE "return"]
               /\ UNCHANGED <<tpc, socket_error, copies>>
    /\ UNCHANGED <<pickle_unchanged, stats, backend_start_time, sink_vars>>

\* deliver_pickled_values returns: deliver goes on to its next call, the
\* fourth being the one of deliver_internal_stats, which sets the sink's own
\* counter and gauges in the arguments first; after the fourth the counter
\* of exceptions is reset, the socket closed, and deliver returns
PickleReturn ==
    /\ "graphite" \in BackendNames /\ tpc["graphite"] = "pickling"
    /\ \/ pickling.pc = "return"
       \/ pickling.pc = "while" /\ pickling.metrics = <<>>
    /\ LET S == copies["graphite"]
           internal == graphite_arguments(S, TRUE, exceptions["graphite"],
                                          last_exception["graphite"],
                                          pickling.start_time)
       IN  IF pickling.call < 3
           THEN   /\ pickling' = entered(pickling.call + 1, S,
                                         pickling.start_time,
                                         METRICS_CONTROLLER)
                  /\ UNCHANGED <<tpc, copies, backend_start_time, sink_vars>>
           ELSE IF pickling.call = 3
           THEN   /\ \E last \in {METRICS_CONTROLLER, METRICS_BACKEND} :
                         pickling' = entered(4, internal, pickling.start_time,
                                             last)
                  /\ copies' = [copies EXCEPT !["graphite"] = internal]
                  /\ UNCHANGED <<tpc, backend_start_time, sink_vars>>
           ELSE   /\ pickling' = NoPickling
                  /\ exceptions' = [exceptions EXCEPT !["graphite"] = 0]
                  /\ tpc' = [tpc EXCEPT !["graphite"] = "delivered"]
                  /\ backend_start_time' =
                         [backend_start_time EXCEPT !["graphite"] = time_time]
                  /\ UNCHANGED <<copies, last_exception>>
    /\ UNCHANGED <<pickle_unchanged, stats, socket_error>>

\* deliver_stats, lines 138-147, for the statsd sink: StatsdBackend.deliver
\* on a deep copy of the snapshot.  An exception of the formatting or a
\* socket.error of the connect, which no handler catches, ends the thread;
\* a socket.error of a send is caught and counted nowhere.
StatsdDeliver ==
    /\ "statsd" \in BackendNames /\ tpc["statsd"] = "started"
    /\ \E connected \in BOOLEAN :
          LET args == arguments("statsd")
              returned == statsd_deliver(args.value) = "none" /\ connected
          IN  /\ Mutate(args, args.value, returned)
              /\ socket_error' =
                     [socket_error EXCEPT !["statsd"] =
                         statsd_deliver(args.value) = "none" /\ ~connected]
              /\ IF returned
                 THEN /\ tpc' = [tpc EXCEPT !["statsd"] = "delivered"]
                      /\ backend_start_time' =
                             [backend_start_time EXCEPT !["statsd"] = time_time]
                 ELSE /\ tpc' = [tpc EXCEPT !["statsd"] = "raised"]
                      /\ UNCHANGED backend_start_time
    /\ UNCHANGED <<io_vars, application_config, live_vars, clock_vars, loop_vars, polls,
                   sink_vars, last_exc, hist_vars, count_vars>>

\* a blocking socket call of deliver (socket.connect and socket.send carry
\* no timeout) never returns: the thread of a sink that writes to a TCP
\* socket stays in deliver
Hang(b) ==
    /\ b \in BackendNames \cap {"graphite", "upstream"}
    /\ tpc[b] = "started"
    /\ tpc' = [tpc EXCEPT ![b] = "hung"]
    /\ UNCHANGED <<io_vars, application_config, live_vars, clock_vars, flush_vars,
                   backend_start_time, copies, socket_error, polls, sink_vars,
                   last_exc, hist_vars, count_vars>>

\* deliver_stats, lines 149-151: the thread appends the delivery duration to
\* the controller's internal_timers and ends
ThreadTimer(b) ==
    /\ tpc[b] = "delivered"
    /\ LET r == internal_timer(Live, METRICS_BACKEND_DELIVERY_DURATION(b),
                               backend_start_time[b], METRICS_BACKEND)
       IN  /\ SetLive(r.st)
           /\ tpc' = [tpc EXCEPT ![b] = IF r.exc = "none" THEN "done"
                                         ELSE "raised"]
    /\ backend_start_time' = [backend_start_time EXCEPT ![b] = 0]
    /\ copies' = [copies EXCEPT ![b] = NoStats]
    /\ socket_error' = [socket_error EXCEPT ![b] = FALSE]
    /\ UNCHANGED <<io_vars, application_config, clock_vars, flush_vars, polls,
                   sink_vars, last_exc, hist_vars, count_vars>>

(***************************************************************************)
(* Inputs                                                                  *)
(***************************************************************************)
\* foo:5|c
LineFoo5 == <<"f", "o", "o", ":", "5", "|", "c">>
\* foo:3|c
LineFoo3 == <<"f", "o", "o", ":", "3", "|", "c">>
\* foo:10|c|@0.5
LineFooRate == <<"f", "o", "o", ":", "1", "0", "|", "c", "|", "@", "0", ".", "5">>
\* g1:10|g
LineG10 == <<"g", "1", ":", "1", "0", "|", "g">>
\* g1:+3|g
LineGPlus3 == <<"g", "1", ":", "+", "3", "|", "g">>
\* g1:-1|g
LineGMinus1 == <<"g", "1", ":", "-", "1", "|", "g">>
\* g2:+4|g
LineG2Plus4 == <<"g", "2", ":", "+", "4", "|", "g">>
\* s1:a|s
LineSa == <<"s", "1", ":", "a", "|", "s">>
\* s1:b|s
LineSb == <<"s", "1", ":", "b", "|", "s">>
\* t:100|ms
LineT100 == <<"t", ":", "1", "0", "0", "|", "m", "s">>
\* t:200|ms
LineT200 == <<"t", ":", "2", "0", "0", "|", "m", "s">>
\* bad line garbage
LineGarbage == <<"b", "a", "d", " ", "l", "i", "n", "e", " ",
                 "g", "a", "r", "b", "a", "g", "e">>
\* foo:1|x, a kind that is none of c, g, ms, s
LineUnknownKind == <<"f", "o", "o", ":", "1", "|", "x">>
\* foo:1|c|zz, a sample rate that is no rate
LineBadRate == <<"f", "o", "o", ":", "1", "|", "c", "|", "z", "z">>
\* the lines of ls joined by a newline
RECURSIVE JoinLines(_)
JoinLines(ls) ==
    IF Len(ls) = 1 THEN ls[1] ELSE ls[1] \o <<"\n">> \o JoinLines(Tail(ls))

\* the datagrams a statsd client may send
Datagrams ==
    {LineFoo5, LineGPlus3, LineSa, LineT100,
     JoinLines(<<LineFoo5, LineGarbage, LineFoo3>>)}

\* the snapshot of a peer on PeerHost, and the frames its upstream sink sends
PeerInternal(n) ==
    SetLeaf(int_metric_dict(PeerHost),
            <<METRICS_CONTROLLER, PeerHost, METRICS_PACKETS_RECEIVED>>, n)
PeerStats(cs, gs, ss, ts) ==
    [timestamp |-> 0, counters |-> cs, gauges |-> gs, sets |-> ss,
     timers |-> ts, int_counters |-> PeerInternal(1),
     int_gauges |-> int_metric_dict(PeerHost),
     int_timers |-> int_metric_dict(PeerHost)]
KeyX == <<"x">>
KeyG1 == <<"g", "1">>
KeyS1 == <<"s", "1">>
KeyT == <<"t">>
Frames ==
    {get_metrics(PeerHost, 0, 0,
                 PeerStats(Put(EmptyDict, KeyX, 7), Put(EmptyDict, KeyG1, 5),
                           EmptyDict, Put(EmptyDict, KeyT, <<250000>>))),
     get_metrics(PeerHost, 0, 0,
                 PeerStats(Put(EmptyDict, KeyX, 7), EmptyDict,
                           Put(EmptyDict, KeyS1, Put(EmptyDict, <<"a">>, 1)),
                           EmptyDict))}

(***************************************************************************)
(* Specifications                                                          *)
(***************************************************************************)
Threads ==
    \/ LoggerDeliver
    \/ UpstreamDeliver
    \/ \E b \in BackendNames : ThreadTimer(b)

Flush(max, history) ==
    \/ Elapse(max)
    \/ ProcessStats(max, history)
    \/ StartThread
    \/ BarrierPoll
    \/ BarrierExit

RecvDatagram == Recv(Datagrams, MaxEvents, FALSE)
MergeFrame == Merge(Frames, MaxEvents, FALSE)

Next == RecvDatagram \/ MergeFrame \/ Flush(MaxEvents, FALSE) \/ Threads

Spec == Init /\ [][Next]_vars

(***************************************************************************)
(* The sinks: the controller with the Graphite and the statsd sink          *)
(* configured, or with the logger and the upstream sink and a flush         *)
(* interval of half a second; a delivery thread may stay in a socket call   *)
(***************************************************************************)
\* datagrams received, frames merged and flush ticks of one run, together
MaxTicks == 3

\* backends: graphite and statsd enabled, no flush_interval
SinksConfig == [flush_interval |-> 0, backends |-> {"graphite", "statsd"}]
\* flush_interval: 0.5
FastConfig == [flush_interval |-> FloatScale \div 2,
               backends |-> {"logger", "upstream"}]

InitSinks == InitWith({SinksConfig, FastConfig})

SinkData == {LineFoo5, LineT100}

RecvSample == Recv(SinkData, MaxTicks, TRUE)
MergePayload == Merge(Frames, MaxTicks, TRUE)

NextSinks ==
    \/ RecvSample
    \/ MergePayload
    \/ Flush(MaxTicks, TRUE)
    \/ Threads
    \/ GraphiteDeliver
    \/ StatsdDeliver
    \/ \E b \in BackendNames : Hang(b)

SpecSinks == InitSinks /\ [][NextSinks]_vars

(***************************************************************************)
(* The ingest specification: statsd clients send datagrams of IngestData,  *)
(* the flush timer fires, and the datagrams received since the last        *)
(* snapshot are recorded in interval_log (flushed_log once snapshotted),   *)
(* the handler that ran last in last_op and the live state it found in     *)
(* prev.                                                                   *)
(***************************************************************************)
\* datagrams and flush ticks per run of the ingest specification
MaxLines == 3

IngestData ==
    {LineFoo5, LineFoo3, LineFooRate, LineG10, LineGPlus3, LineGMinus1,
     LineG2Plus4, LineSa, LineSb, LineT100, LineT200, LineGarbage,
     LineUnknownKind, LineBadRate,
     JoinLines(<<LineFoo5, LineGarbage, LineFoo3>>),
     JoinLines(<<LineFoo5, LineFoo3>>)}

RecvLine == Recv(IngestData, MaxLines, TRUE)

NextIngest == RecvLine \/ Flush(MaxLines, TRUE) \/ Threads

SpecIngest == Init /\ [][NextIngest]_vars

(***************************************************************************)
(* The upstream merge: frames of a peer and local samples on their keys     *)
(***************************************************************************)
\* datagrams received, frames merged and flush ticks of one run, together
MaxMerges == 3

\* x:3|c
LineX3 == <<"x", ":", "3", "|", "c">>

\* the frames of Frames, a frame with another value of the counter x and two
\* samples of the timer t, and a frame with a negative gauge
MergeFrames ==
    Frames \cup
    {get_metrics(PeerHost, 0, 0,
                 PeerStats(Put(EmptyDict, KeyX, 2), EmptyDict, EmptyDict,
                           Put(EmptyDict, KeyT, <<300000, 100000>>))),
     get_metrics(PeerHost, 0, 0,
                 PeerStats(Put(EmptyDict, KeyX, 2), Put(EmptyDict, KeyG1, -1),
                           EmptyDict, Put(EmptyDict, KeyT, <<50000>>)))}

MergeData == {LineX3, LineSa, LineT100}

RecvLocal == Recv(MergeData, MaxMerges, TRUE)
MergeUpstream == Merge(MergeFrames, MaxMerges, TRUE)

NextMerge == RecvLocal \/ MergeUpstream \/ Flush(MaxMerges, TRUE) \/ Threads

SpecMerge == Init /\ [][NextMerge]_vars

(***************************************************************************)
(* One sample per datagram: a line of each kind on several keys            *)
(***************************************************************************)
SampleData ==
    {LineFoo5, LineG10, LineG2Plus4, LineGMinus1, LineSa, LineSb, LineT100,
     LineUnknownKind}

RecvOne == Recv(SampleData, MaxLines, TRUE)

NextSamples == RecvOne \/ Flush(MaxLines, TRUE) \/ Threads

SpecSamples == Init /\ [][NextSamples]_vars

(***************************************************************************)
(* Timer samples in every insertion order, flushed to the logger sink      *)
(***************************************************************************)
MaxSamples == 4
\* t:300|ms
LineT300 == <<"t", ":", "3", "0", "0", "|", "m", "s">>
TimerData == {LineT100, LineT200, LineT300}

RecvTimer == Recv(TimerData, MaxSamples, TRUE)

NextTimers == RecvTimer \/ Flush(MaxSamples, TRUE) \/ Threads

SpecTimers == Init /\ [][NextTimers]_vars

(***************************************************************************)
(* Upstream connections: peers connect, write frames, and the server reads *)
(***************************************************************************)
MaxStreams == 2
MaxFrames == 3
\* bytes that are no pickle, ending in FRAME_END; obj is what a deserializer
\* that checked nothing would make of them
Garbage ==
    [pickled |-> FALSE,
     obj |-> get_metrics(PeerHost, 0, 0,
                         PeerStats(Put(EmptyDict, KeyX, 1), EmptyDict,
                                   EmptyDict, EmptyDict))]
\* what peers write: the frames of two snapshots, and garbage
Written == {pickle_dumps(P) : P \in Frames} \cup {Garbage}

Accept == handle_stream(MaxStreams)
PeerSend == PeerWrite(Written, MaxFrames)
OnData == on_data(TRUE)

NextUpstream == Accept \/ PeerSend \/ OnData

SpecUpstream == Init /\ [][NextUpstream]_vars

(***************************************************************************)
(* The Graphite sink in pickle format, with small batch sizes and with the *)
(* default one                                                             *)
(***************************************************************************)
MaxBatch == 2
MaxPickles == 3
\* the Graphite sink alone, in pickle format; batch_size given or left out
PickleConfigs ==
    {[flush_interval |-> 0, backends |-> {"graphite"}, format |-> PICKLE,
      batch_size |-> n] : n \in 1..MaxBatch}
    \cup {[flush_interval |-> 0, backends |-> {"graphite"}, format |-> PICKLE]}

InitGraphite == InitWith(PickleConfigs)

PickleData == {LineFoo5, LineX3, LineG10, LineT100}

RecvMetric == Recv(PickleData, MaxPickles, FALSE)

NextGraphite ==
    \/ RecvMetric
    \/ Flush(MaxPickles, FALSE)
    \/ GraphitePickle
    \/ PickleIterate
    \/ PickleReturn
    \/ ThreadTimer("graphite")

SpecGraphite == InitGraphite /\ [][NextGraphite]_vars

(***************************************************************************)
(* One counter sample on every raw key over the characters the FIXUP       *)
(* patterns are made of                                                    *)
(***************************************************************************)
MaxKeyLen == 8
KeyChars == {"/", "!", "g"}
RawKeys == UNION {[1..n -> KeyChars] : n \in 0..MaxKeyLen}
\* <key>:1|c
KeyData == {key \o <<":", "1", "|", "c">> : key \in RawKeys}

RecvKey == Recv(KeyData, 1, TRUE)

NextKeys == RecvKey

SpecKeys == Init /\ [][NextKeys]_vars

(***************************************************************************)
(* What the wire format calls a sample: KEY:VALUE|KIND or                  *)
(* KEY:VALUE|KIND|@RATE on one line, KIND one of c, g, ms, s and RATE a    *)
(* float in (0, 1].  These read a line as the specification describes it;  *)
(* the claims below compare the program's state with them.                 *)
(***************************************************************************)
Kinds == {<<"c">>, <<"g">>, <<"m", "s">>, <<"s">>}
IsMultiLine(data) == \E i \in 1..Len(data) : data[i] = "\n"
Parts(line) == Split(line, "|")
Bits(line) == Split(Parts(line)[1], ":")
WellFormedRate(p) ==
    /\ Len(p) >= 2 /\ p[1] = "@"
    /\ PyFloat(VStr(Tail(p))).ok
    /\ PyFloat(VStr(Tail(p))).x \in 1..FloatScale
IsSample(line, kind) ==
    /\ ~IsMultiLine(line)
    /\ Len(Parts(line)) \in {2, 3}
    /\ Parts(line)[2] = kind
    /\ Len(Bits(line)) = 2 /\ Bits(line)[1] # <<>> /\ Bits(line)[2] # <<>>
    /\ Len(Parts(line)) = 3 => WellFormedRate(Parts(line)[3])
IsWellFormed(line) == \E kind \in Kinds : IsSample(line, kind)
HasUnknownKind(line) ==
    ~IsMultiLine(line) /\ Len(Parts(line)) >= 2 /\ Parts(line)[2] \notin Kinds
HasMalformedRate(line) ==
    /\ ~IsMultiLine(line) /\ Len(Parts(line)) = 3
    /\ ~WellFormedRate(Parts(line)[3])
SampleKey(line) == Bits(line)[1]
SampleText(line) == Bits(line)[2]
SampleValue(line) == PyInt(VStr(SampleText(line))).n
IsNumeric(line) == PyInt(VStr(SampleText(line))).ok
HasSign(line) == SampleText(line)[1] \in {"+", "-"}
\* 1 / RATE, 1 when the line carries no rate
SampleRateInverse(line) ==
    IF Len(Parts(line)) = 3
    THEN FloatScale \div PyFloat(VStr(Tail(Parts(line)[3]))).x
    ELSE 1
\* every datagram of log is one sample of the kind, all on one key
SamplesOnOneKey(log, kind) ==
    /\ log # <<>>
    /\ \A i \in 1..Len(log) :
          /\ IsSample(log[i], kind)
          /\ SampleKey(log[i]) = SampleKey(log[1])

\* the public maps of a live state
PublicMaps(L) == <<L.counters, L.gauges, L.sets, L.timers>>
\* an internal counter of the controller on this host, 0 while it is unset
InternalCount(L, key) ==
    LET p == <<METRICS_CONTROLLER, host, key>>
    IN  IF HasLeaf(L.internal_counters, p) THEN L.internal_counters.leaves[p]
        ELSE 0
\* the number of times x occurs in seq
Count(seq, x) == Cardinality({i \in 1..Len(seq) : seq[i] = x})
\* two timer maps hold the same samples for every key, whatever their order
SameBags(t1, t2) ==
    /\ DOMAIN t1 = DOMAIN t2
    /\ \A k \in DOMAIN t1 :
          /\ Len(t1[k]) = Len(t2[k])
          /\ \A i \in 1..Len(t1[k]) : Count(t1[k], t1[k][i]) = Count(t2[k], t1[k][i])

(***************************************************************************)
(* C1 .. C10                                                               *)
(***************************************************************************)
\* the flush tick has taken its snapshot and has started no delivery thread
SnapshotReturned == loop_pc = "snapshot_taken" /\ to_start = backends

\* C1: after snapshot() returns at a flush tick, whatever datagrams and
\* upstream frames came before, counters, gauges, sets and timers are empty
\* and internal_counters, internal_gauges and internal_timers are each the
\* empty per-host scaffold {backend: {host: {}}, controller: {host: {}}}.
C1_SnapshotReset ==
    SnapshotReturned =>
        /\ counters = EmptyDict /\ gauges = EmptyDict
        /\ sets = EmptyDict /\ timers = EmptyDict
        /\ internal_counters = new_int_metric_dict
        /\ internal_gauges = new_int_metric_dict
        /\ internal_timers = new_int_metric_dict

\* a snapshot of an interval that saw a datagram and an upstream frame and
\* holds a counter, a gauge and the controller's own metrics
C1_Witness ==
    /\ SnapshotReturned
    /\ n_datagrams > 0 /\ n_merges > 0
    /\ stats.counters # EmptyDict /\ stats.gauges # EmptyDict
    /\ stats.int_counters # new_int_metric_dict
    /\ stats.int_gauges # new_int_metric_dict
    /\ stats.int_timers # new_int_metric_dict

\* the counter value the samples of log add up to: the sum of int(v) * (1/r)
RECURSIVE ClaimedCounter(_, _)
ClaimedCounter(log, i) ==
    IF i > Len(log) THEN 0
    ELSE SampleValue(log[i]) * SampleRateInverse(log[i])
         + ClaimedCounter(log, i + 1)

\* C2: when the datagrams of a flush interval are counter samples on one
\* key, KEY:v|c or KEY:v|c|@r with r in (0, 1], the counter in the snapshot
\* handed to the sinks is the sum of int(v) * (1/r) over the samples:
\* foo:5|c and foo:3|c flush 8, foo:10|c|@0.5 flushes 20.
C2_CounterLinearity ==
    (/\ SnapshotReturned
     /\ SamplesOnOneKey(flushed_log, <<"c">>)
     /\ \A i \in 1..Len(flushed_log) : IsNumeric(flushed_log[i]))
    => LET key == SampleKey(flushed_log[1])
       IN  /\ key \in DOMAIN stats.counters
           /\ stats.counters[key] = ClaimedCounter(flushed_log, 1)

\* the gauge the samples of log leave: an unsigned sample replaces it, a
\* signed one is added to it
RECURSIVE ClaimedGauge(_, _, _)
ClaimedGauge(log, i, acc) ==
    IF i > Len(log) THEN acc
    ELSE ClaimedGauge(log, i + 1,
                      IF HasSign(log[i]) THEN acc + SampleValue(log[i])
                      ELSE SampleValue(log[i]))

\* C3: when the datagrams of a flush interval are gauge samples on one key,
\* the gauge in the snapshot is the last unsigned sample plus the signed
\* samples after it, from 0 when no unsigned sample comes first: g1:10|g,
\* g1:+3|g, g1:-1|g flush 12 and a lone g2:+4|g flushes 4.
C3_GaugeSignedDeltas ==
    (/\ SnapshotReturned
     /\ SamplesOnOneKey(flushed_log, <<"g">>)
     /\ \A i \in 1..Len(flushed_log) : IsNumeric(flushed_log[i]))
    => LET key == SampleKey(flushed_log[1])
       IN  /\ key \in DOMAIN stats.gauges
           /\ stats.gauges[key] = ClaimedGauge(flushed_log, 1, 0)

\* the values the set samples of log carry
SetValues(log) == {SampleText(log[i]) : i \in 1..Len(log)}
\* the number of samples of log that carry v
SetOccurrences(log, v) ==
    Cardinality({i \in 1..Len(log) : SampleText(log[i]) = v})

\* C4: when the datagrams received in the current flush interval are set
\* samples on one key, sets[key] maps every value seen to the number of
\* samples that carried it: s1:a|s, s1:a|s, s1:b|s give {a: 2, b: 1}.
C4_SetMultiset ==
    SamplesOnOneKey(interval_log, <<"s">>)
    => LET key == SampleKey(interval_log[1])
       IN  /\ key \in DOMAIN sets
           /\ sets[key] = [v \in SetValues(interval_log) |->
                              SetOccurrences(interval_log, v)]

\* the live state at the start of the current flush interval, as far as the
\* public maps go
IntervalStart ==
    [Live EXCEPT !.counters = EmptyDict, !.gauges = EmptyDict,
                 !.sets = EmptyDict, !.timers = EmptyDict]
IsCommutativeSample(line) ==
    \E kind \in {<<"c">>, <<"s">>, <<"m", "s">>} :
        IsSample(line, kind) /\ Len(Parts(line)) = 2

\* C5: when two counter, set or timer samples were received in the current
\* flush interval, counters, sets and timers (as bags) are what receiving
\* the two in the other order gives; and of two unsigned gauge samples on
\* one key the gauge holds the second.
C5_Commutative ==
    Len(interval_log) = 2 =>
        LET a == interval_log[1]
            b == interval_log[2]
            swapped == process_data(process_data(IntervalStart, b).st, a).st
        IN  /\ (IsCommutativeSample(a) /\ IsCommutativeSample(b)) =>
                   /\ counters = swapped.counters
                   /\ sets = swapped.sets
                   /\ SameBags(timers, swapped.timers)
            /\ (/\ IsSample(a, <<"g">>) /\ IsSample(b, <<"g">>)
                /\ SampleKey(a) = SampleKey(b)
                /\ ~HasSign(a) /\ ~HasSign(b)) =>
                   gauges[SampleKey(b)] = SampleValue(b)

\* the last handler the event loop ran was process_data
AfterDatagram == last_op.op = "process_data"
\* ... on a datagram of one line
AfterLine == AfterDatagram /\ ~IsMultiLine(last_op.data)

\* the well-formed lines of a datagram received one by one, the others
\* skipped
RECURSIVE ApplyWellFormed(_, _, _)
ApplyWellFormed(L, lines, i) ==
    IF i > Len(lines) THEN L
    ELSE ApplyWellFormed(IF IsWellFormed(lines[i])
                         THEN process_data(L, lines[i]).st ELSE L,
                         lines, i + 1)

\* C6: when a datagram of several lines holds a malformed line (no '|' kind
\* field, an empty line, an unknown kind or a bad rate), each of its
\* well-formed lines, before or after the malformed one, is applied to the
\* live state.
C6_MalformedLineIsolated ==
    (/\ AfterDatagram /\ IsMultiLine(last_op.data)
     /\ \E i \in 1..Len(Split(last_op.data, "\n")) :
           ~IsWellFormed(Split(last_op.data, "\n")[i]))
    => PublicMaps(Live)
         = PublicMaps(ApplyWellFormed(prev, Split(last_op.data, "\n"), 1))

\* C7: a line of an unknown kind, or whose third field is a malformed rate,
\* adds exactly 1 to bad_lines_seen and leaves counters, gauges, sets and
\* timers as they were; a line whose rate is a well-formed float in (0, 1]
\* is accepted and applied (a counter sample adds int(v) * (1/r)).
C7_BadKindOrRate ==
    AfterLine =>
        /\ (HasUnknownKind(last_op.data) \/ HasMalformedRate(last_op.data)) =>
              /\ InternalCount(Live, METRICS_BAD_STATS_RECEIVED)
                   = InternalCount(prev, METRICS_BAD_STATS_RECEIVED) + 1
              /\ PublicMaps(Live) = PublicMaps(prev)
        /\ (IsSample(last_op.data, <<"c">>) /\ Len(Parts(last_op.data)) = 3) =>
              /\ InternalCount(Live, METRICS_BAD_STATS_RECEIVED)
                   = InternalCount(prev, METRICS_BAD_STATS_RECEIVED)
              /\ counters
                   = incr(prev, SampleKey(last_op.data),
                          SampleValue(last_op.data)
                            * SampleRateInverse(last_op.data)).counters

\* C8: every malformed line, one with no '|' kind field such as
\* 'bad line garbage' included, adds exactly 1 to bad_lines_seen, is dropped,
\* and process_data returns: no exception reaches the event loop.
C8_MalformedIsParseError ==
    (AfterLine /\ ~IsWellFormed(last_op.data)) =>
        /\ InternalCount(Live, METRICS_BAD_STATS_RECEIVED)
             = InternalCount(prev, METRICS_BAD_STATS_RECEIVED) + 1
        /\ PublicMaps(Live) = PublicMaps(prev)
        /\ last_exc = "none"

\* C9: every datagram handed to process_data adds exactly 1 to
\* packets_received, however many lines it holds.
C9_OnePacketPerDatagram ==
    AfterDatagram =>
        InternalCount(Live, METRICS_PACKETS_RECEIVED)
          = InternalCount(prev, METRICS_PACKETS_RECEIVED) + 1

\* a delivery thread of the current tick has been started and has not ended
Delivering == \E b \in BackendNames : tpc[b] \in {"started", "delivered"}

\* C10: process_stats returns only when every delivery thread it started has
\* ended, by returning or by raising; until then the event loop runs no
\* datagram, no upstream frame and no other flush tick.
C10_Barrier ==
    [][/\ (loop_pc # "idle" /\ loop_pc' = "idle") =>
              \A b \in BackendNames : tpc[b] \in {"done", "raised"}
       /\ Delivering =>
              /\ loop_pc' # "idle"
              /\ <<n_datagrams, n_merges, n_flushes>>'
                   = <<n_datagrams, n_merges, n_flushes>>
              /\ PublicMaps(Live)' = PublicMaps(Live)
              /\ internal_counters' = internal_counters
              /\ internal_gauges' = internal_gauges]_vars

\* a tick has returned after its barrier slept on a running thread; the
\* logger's thread ended by raising and the upstream sink's by returning
C10_Witness ==
    /\ loop_pc = "idle" /\ n_flushes > 0 /\ polls > 0
    /\ tpc["logger"] = "raised" /\ tpc["upstream"] = "done"

(***************************************************************************)
(* C11 .. C20                                                              *)
(***************************************************************************)
\* C11: a sink's deliver() works on its own deep copy of the snapshot.  The
\* step of a thread through deliver() changes neither the coordinator's
\* snapshot, nor the copy of another thread, nor the live state; and a copy
\* whose deliver() has returned shows the writes of its own sink only (no
\* self-stats of the upstream sink in the logger's copy, no sorted timer list
\* in the upstream sink's).
C11_PrivateCopies ==
    /\ [](\A b \in BackendNames : tpc[b] = "delivered" =>
             /\ b = "logger" =>
                   /\ copies[b].int_counters = stats.int_counters
                   /\ copies[b].int_gauges = stats.int_gauges
                   /\ copies[b].timers = timer_values(stats.timers)
             /\ b = "upstream" =>
                   /\ copies[b].timers = stats.timers
                   /\ copies[b].int_timers = stats.int_timers)
    /\ [][\A b \in BackendNames :
             (tpc[b] = "started" /\ tpc'[b] \in {"delivered", "raised"}) =>
                /\ stats' = stats
                /\ \A c \in BackendNames \ {b} : copies'[c] = copies[c]
                /\ Live' = Live]_vars

\* both sinks have returned from deliver() on a snapshot with a timer list
\* that is not in order: the logger's copy holds it sorted, the upstream
\* sink's copy holds the sink's own counter, the snapshot holds neither
C11_Witness ==
    /\ {"logger", "upstream"} \subseteq BackendNames
    /\ tpc["logger"] = "delivered" /\ tpc["upstream"] = "delivered"
    /\ copies["logger"].timers # stats.timers
    /\ copies["upstream"].int_counters # stats.int_counters
    /\ copies["logger"].int_counters = stats.int_counters

\* a step of the delivery thread of backend b: deliver(), or what
\* deliver_stats does after it
ThreadStep(b) == tpc[b] \in {"started", "delivered"} /\ tpc'[b] # tpc[b]

\* C12: no step of a delivery thread writes the controller's live state:
\* counters, gauges, sets, timers, internal_counters, internal_gauges and
\* internal_timers are left as they were by every thread step.
C12_ThreadsLeaveLiveState ==
    [][(\E b \in BackendNames : ThreadStep(b)) => Live' = Live]_vars

\* C13: deliver() returns normally for every sink and every snapshot: the
\* step of a thread through deliver() never ends with an exception raised out
\* of deliver() (a thread that does not return at all raises nothing).
C13_DeliverReturns ==
    [][\A b \in BackendNames :
          (tpc[b] = "started" /\ tpc'[b] # "started") =>
              tpc'[b] \in {"delivered", "hung"}]_vars

\* the sinks that write to a TCP socket
TcpSinks == {"graphite", "upstream"}

\* C14: when the deliver() of a sink ends on a socket.error of its TCP
\* connect or send, the sink's exceptions counter has grown by exactly one,
\* last_exception is the current time in epoch seconds, and deliver() has
\* returned: the error is not raised out of it.
C14_SocketErrorCounted ==
    [][\A b \in BackendNames \cap TcpSinks :
          (tpc[b] = "started" /\ tpc'[b] \notin {"started", "hung"}
           /\ socket_error'[b]) =>
              /\ exceptions'[b] = exceptions[b] + 1
              /\ last_exception'[b]
                     \in {time_time, (time_time \div FloatScale) * FloatScale}
              /\ tpc'[b] = "delivered"]_vars

\* the time process_stats has spent since its snapshot, in ms
Waited == now - stats_start_time

\* C15: a delivery thread that hangs is given up once a bounded wait has
\* elapsed: when the tick has waited MaxSleeps barrier sleeps for it, the
\* barrier waits for it no longer.
C15_HungTaskTimesOut ==
    \A b \in BackendNames :
        (tpc[b] = "hung" /\ Waited >= MaxSleeps * 250) => b \notin threads

\* a delivery thread is in a socket call that never returns
Hung == \E b \in BackendNames : tpc[b] = "hung"

\* C16: process_stats has no timeout for a delivery: once a thread hangs,
\* the tick never returns to the event loop, and no datagram is received,
\* no frame merged and no other tick run from then on.
C16_HungTaskBlocks ==
    /\ [](Hung => loop_pc # "idle")
    /\ [][Hung => /\ Hung'
                  /\ loop_pc' # "idle"
                  /\ <<n_datagrams, n_merges, n_flushes>>'
                       = <<n_datagrams, n_merges, n_flushes>>
                  /\ epoch_log' = epoch_log]_vars

\* the barrier has slept on a hung thread and still waits for it, after
\* datagrams or frames had been handled before the tick
C16_Witness ==
    /\ \E b \in BackendNames : tpc[b] = "hung" /\ b \in threads
    /\ loop_pc = "barrier" /\ polls >= MaxSleeps /\ Waited >= MaxSleeps * 250
    /\ n_datagrams + n_merges > 0

\* C17: the timestamps of the snapshots of consecutive flush ticks are
\* strictly increasing.
C17_EpochStrictlyIncreasing ==
    \A i \in 1..(Len(epoch_log) - 1) : epoch_log[i] < epoch_log[i + 1]

\* the live state after the payload P and then the payload Q were merged
\* into L, their keys visited in the orders oP and oQ
MergedBoth(L, P, oP, Q, oQ) ==
    downstream_data(downstream_data(L, P, oP).st, Q, oQ).st

\* C18: merging two upstream payloads P and Q into any live state gives the
\* same counters, the same sets and the same timers (as bags) whether P or Q
\* is merged first.
C18_MergeCommutes ==
    loop_pc = "idle" =>
        \A PQ \in {pair \in SUBSET MergeFrames : Cardinality(pair) = 2} :
            LET P == CHOOSE payload \in PQ : TRUE
                Q == CHOOSE payload \in PQ : payload # P
            IN  \A oP \in KeyOrders(P), oQ \in KeyOrders(Q) :
                    LET pq == MergedBoth(Live, P, oP, Q, oQ)
                        qp == MergedBoth(Live, Q, oQ, P, oP)
                    IN  /\ pq.counters = qp.counters
                        /\ pq.sets = qp.sets
                        /\ SameBags(pq.timers, qp.timers)

\* two different payloads, both with a counter and one with a timer, were
\* merged in one interval into a state that held a local timer sample
C18_Witness ==
    /\ loop_pc = "idle" /\ Len(merged_log) = 2
    /\ merged_log[1] # merged_log[2]
    /\ merged_log[1].counters[KeyX] # merged_log[2].counters[KeyX]
    /\ interval_log = <<LineT100>>
    /\ KeyT \in DOMAIN timers /\ Len(timers[KeyT]) > 1

\* the value a map holds for a key, 0 while it holds none
Old(map, key) == IF key \in DOMAIN map THEN map[key] ELSE 0

\* what the datagrams of log from the i-th on add to the counter key
RECURSIVE LocalCounter(_, _, _)
LocalCounter(log, key, i) ==
    IF i > Len(log) THEN 0
    ELSE (IF IsSample(log[i], <<"c">>) /\ SampleKey(log[i]) = key
          THEN SampleValue(log[i]) * SampleRateInverse(log[i]) ELSE 0)
         + LocalCounter(log, key, i + 1)

\* what the payloads of log from the i-th on carry for the counter key
RECURSIVE MergedCounter(_, _, _)
MergedCounter(log, key, i) ==
    IF i > Len(log) THEN 0
    ELSE Old(log[i].counters, key) + MergedCounter(log, key, i + 1)

\* C19: a merge adds each counter of the payload to the local counter of the
\* same key; and the snapshot of a flush tick holds, for the counter x, the
\* sum of the local samples and of the merged payloads of the interval, in
\* whatever order they came: a frame with x = 7 and a local x:3|c flush 10.
C19_MergedCounterAdds ==
    /\ [](last_op.op = "downstream_data" =>
             \A k \in DOMAIN last_op.data.counters :
                 /\ k \in DOMAIN counters
                 /\ counters[k]
                      = Old(prev.counters, k) + last_op.data.counters[k])
    /\ [][(loop_pc = "idle" /\ loop_pc' = "snapshot_taken") =>
             Old(stats'.counters, KeyX)
               = LocalCounter(interval_log, KeyX, 1)
                 + MergedCounter(merged_log, KeyX, 1)]_vars

\* the snapshot of an interval in which one frame with x = 7 was merged and
\* the one datagram x:3|c was received holds x = 10
C19_Witness ==
    /\ SnapshotReturned /\ n_merges = 1 /\ n_datagrams = 1
    /\ flushed_log = <<LineX3>>
    /\ Old(stats.counters, KeyX) = 10

\* C20: a merge of a payload that carries sets completes without error and
\* leaves, for every set key of the payload and every value of its map M,
\* sets[key][v] at its previous count (0 if absent) plus M[v].
C20_SetMergeAdds ==
    (last_op.op = "downstream_data" /\ DOMAIN last_op.data.sets # {}) =>
        /\ last_exc = "none"
        /\ \A k \in DOMAIN last_op.data.sets :
              /\ k \in DOMAIN sets
              /\ \A v \in DOMAIN last_op.data.sets[k] :
                    /\ v \in DOMAIN sets[k]
                    /\ sets[k][v]
                         = (IF k \in DOMAIN prev.sets
                            THEN Old(prev.sets[k], v) ELSE 0)
                           + last_op.data.sets[k][v]

(***************************************************************************)
(* C21 .. C30                                                              *)
(***************************************************************************)
\* the signed string of a gauge value: +N, -|N| or 0
SignedString(n) ==
    IF n > 0 THEN <<"+">> \o NatToStr(n)
    ELSE IF n < 0 THEN <<"-">> \o NatToStr(-n)
    ELSE <<"0">>

\* C21: the upstream sink encodes every gauge value N of the snapshot as the
\* signed string '+N' for N > 0, '-|N|' (one leading minus) for N < 0 and '0'
\* for N = 0, and int() of the string is N.
C21_SignedGauges ==
    loop_pc # "idle" =>
        \A k \in DOMAIN stats.gauges :
            LET signed == sign_gauges(stats.gauges)[k]
            IN  /\ signed = SignedString(stats.gauges[k])
                /\ PyInt(VStr(signed)).ok
                /\ PyInt(VStr(signed)).n = stats.gauges[k]

\* a peer instance right after setup: nothing received yet
EmptyPeer ==
    [counters |-> EmptyDict, gauges |-> EmptyDict, sets |-> EmptyDict,
     timers |-> EmptyDict, internal_counters |-> new_int_metric_dict,
     internal_gauges |-> new_int_metric_dict,
     internal_timers |-> new_int_metric_dict]
\* the frame the upstream sink builds of the snapshot S
UpstreamFrame(S) ==
    pickle_dumps(get_metrics(host, exceptions["upstream"],
                             last_exception["upstream"], S))

\* C22: the frame the upstream sink builds of a snapshot S, received and
\* merged by a peer whose live maps are empty, leaves the peer's counters,
\* gauges, sets and timers equal to those of S, whatever the sign of the
\* gauges and also for non-empty sets.
C22_RoundTrip ==
    (loop_pc # "idle" /\ "upstream" \in BackendNames) =>
        LET loaded == pickle_loads(UpstreamFrame(stats))
        IN  /\ loaded.exc = "none"
            /\ \A ord \in KeyOrders(loaded.value) :
                  LET r == downstream_data(EmptyPeer, loaded.value, ord)
                  IN  /\ r.exc = "none"
                      /\ PublicMaps(r.st) =
                             <<stats.counters, stats.gauges, stats.sets,
                               stats.timers>>

\* the logger sink has run its deliver on the snapshot
LoggerRan ==
    /\ "logger" \in BackendNames
    /\ loop_pc # "idle"
    /\ tpc["logger"] \in {"delivered", "raised"}

\* C25: calc_set_values of a set with values returns count = the number of
\* distinct values, count_ps = count / interval, a histogram of the
\* occurrences of each value and the original map as values; of the empty set
\* it returns {count: 0, count_ps: 0}.  Stated of what the logger sink hands
\* to log_sets for every set of the snapshot.
C25_SetValues ==
    LoggerRan =>
        \A k \in DOMAIN stats.sets :
            LET set_data == stats.sets[k]
                count == Cardinality(DOMAIN set_data)
            IN  /\ k \in DOMAIN logged.sets
                /\ IF count = 0
                   THEN logged.sets[k] = [count |-> 0, count_ps |-> 0]
                   ELSE /\ logged.sets[k].count = count
                        /\ logged.sets[k].count_ps = count_ps(count)
                        /\ logged.sets[k].histogram = set_data
                        /\ logged.sets[k].values = set_data

\* the logger sink has logged the timers of the snapshot
TimersLogged == LoggerRan /\ tpc["logger"] = "delivered"
\* the samples of a timer of the snapshot in ascending order
Ascending(k) == SortSeq(stats.timers[k], LAMBDA x, y : x < y)
\* r is the linearly interpolated value of the sorted s at index (n-1)*p,
\* p in thousandths
IsPercentile(s, p, r) ==
    LET k == (Len(s) - 1) * p
        lo == k \div FloatScale
        hi == IF k % FloatScale = 0 THEN lo ELSE lo + 1
    IN  IF k % FloatScale = 0 THEN r = s[lo + 1]
        ELSE r * FloatScale = s[lo + 1] * (hi * FloatScale - k)
                              + s[hi + 1] * (k - lo * FloatScale)
\* q is the quotient total / count to the thousandth
IsQuotient(q, total, count) ==
    count * q <= total /\ total < count * (q + 1)
OneTwoThree == <<100 * FloatScale, 200 * FloatScale, 300 * FloatScale>>

\* C23: for a sorted non-empty sequence and k = (n-1)*p, percentile is
\* values[k] when k is integral and values[floor k]*(ceil k - k) +
\* values[ceil k]*(k - floor k) otherwise; calc_timer_values reports count,
\* min, max, mean, total, median = percentile(0.5), 90th and 95th
\* accordingly; samples 100, 200, 300 give count 3, min 100, max 300,
\* mean 200, median 200, 90th 280 and 95th 290.
C23_TimerValues ==
    TimersLogged =>
        \A k \in DOMAIN stats.timers :
            stats.timers[k] # <<>> =>
                LET s == Ascending(k)
                    v == logged.timers[k]
                IN  /\ v.count = Len(s)
                    /\ v.min = s[1] /\ v.max = s[Len(s)]
                    /\ v.total = sum(stats.timers[k])
                    /\ IsQuotient(v.mean, v.total, v.count)
                    /\ IsPercentile(s, 500, v.median)
                    /\ IsPercentile(s, 900, v.p90)
                    /\ IsPercentile(s, 950, v.p95)
                    /\ (s = OneTwoThree =>
                           /\ v.count = 3
                           /\ v.min = 100 * FloatScale
                           /\ v.max = 300 * FloatScale
                           /\ v.mean = 200 * FloatScale
                           /\ v.median = 200 * FloatScale
                           /\ v.p90 = 280 * FloatScale
                           /\ v.p95 = 290 * FloatScale)
\* the samples 100, 200 and 300 of one timer, logged
C23_Witness ==
    /\ TimersLogged
    /\ \E k \in DOMAIN stats.timers :
          Ascending(k) = OneTwoThree /\ logged.timers[k].p90 = 280 * FloatScale

C26_NormalizeIdempotent ==
    \A key \in DOMAIN counters : NormalizeKey(key) = key

\* the delivery.<name>.duration_ms timer of the sink b
DurationPath(b) ==
    <<METRICS_BACKEND, host, METRICS_BACKEND_DELIVERY_DURATION(b)>>

\* C29: at every flush tick exactly one delivery.<name>.duration_ms sample
\* is appended to internal_timers[backend][host] for each configured sink,
\* after the tick's snapshot was taken: when process_stats returns, the live
\* internal timers, which the snapshot left empty and the next snapshot will
\* report, hold one sample for each sink.
C29_OneDurationPerSink ==
    [][(loop_pc # "idle" /\ loop_pc' = "idle") =>
          \A b \in BackendNames :
              /\ DurationPath(b) \in DOMAIN internal_timers'.leaves
              /\ Len(internal_timers'.leaves[DurationPath(b)]) = 1]_vars

\* C27: each accepted upstream connection carries at most one payload: the
\* server reads up to the first sentinel, closes the stream once that frame
\* has been consumed, and never reads or merges a second frame from the same
\* connection.
C27_OnePayloadPerConnection ==
    \A i \in 1..Len(streams) :
        /\ streams[i].consumed <= 1
        /\ streams[i].consumed = 1 => streams[i].state = "closed"
\* a connection whose first frame was consumed and whose peer wrote a second
C27_Witness ==
    \E i \in 1..Len(streams) :
        /\ streams[i].consumed = 1
        /\ streams[i].buffer # <<>>
        /\ streams[i].state = "closed"

\* on_data is called with the first unread frame of connection i, and the
\* frame is no pickle
DropsFrame(i) ==
    /\ i <= Len(streams) /\ Len(streams') = Len(streams)
    /\ streams'[i].consumed = streams[i].consumed + 1
    /\ ~Head(streams[i].buffer).pickled

\* C28: when an upstream frame cannot be deserialized, the payload is dropped
\* with the live counters, gauges, sets, timers and internal maps unchanged,
\* the connection is closed all the same, and the server keeps accepting
\* later connections.
C28_BadFrameDropped ==
    /\ []((Len(streams) < MaxStreams
           /\ \E i \in 1..Len(streams) : streams[i].exc = "UnpicklingError")
          => ENABLED Accept)
    /\ [][\A i \in 1..MaxStreams :
              DropsFrame(i) =>
                  /\ live_vars' = live_vars
                  /\ streams'[i].state = "closed"]_vars
\* a connection whose frame could not be deserialized is closed, and a
\* connection accepted after it had its payload merged
C28_Witness ==
    \E i, j \in 1..Len(streams) :
        /\ i < j
        /\ streams[i].exc = "UnpicklingError" /\ streams[i].state = "closed"
        /\ streams[j].consumed = 1 /\ streams[j].exc = "none"
        /\ KeyX \in DOMAIN counters

\* the batches in the order they were sent, joined
RECURSIVE Joined(_)
Joined(batches) ==
    IF batches = <<>> THEN <<>> ELSE Head(batches) \o Joined(Tail(batches))
\* a call of deliver_pickled_values is in or just past its while loop
InPickleCall == pickling.pc \in {"while", "return"}

IsSignedString(str) ==
    /\ PyInt(VStr(str)).ok
    /\ str = SignedString(PyInt(VStr(str)).n)

\* C31: a merge applies each gauge of the payload with its signed string: a
\* '+N' or '-N' of the payload is added to the local gauge of the same key
\* (0 while the key is unset), so that two payloads with +5 for one key
\* leave 10, and a '0' replaces it.
C31_MergedGaugeDeltas ==
    last_op.op = "downstream_data" =>
        \A k \in DOMAIN last_op.data.gauges :
            LET str == last_op.data.gauges[k]
                n == PyInt(VStr(str)).n
            IN  IsSignedString(str) =>
                    /\ k \in DOMAIN gauges
                    /\ gauges[k] = IF n = 0 THEN 0
                                   ELSE Old(prev.gauges, k) + n

\* the internal counter a handler of the kind bumps
KindCounter(kind) ==
    CASE kind = <<"c">> -> METRICS_COUNTER
      [] kind = <<"g">> -> METRICS_GAUGE
      [] kind = <<"s">> -> METRICS_SET
      [] kind = <<"m", "s">> -> METRICS_TIMER
\* process_data called the handler of the kind on its one line, and the
\* handler returned
HandlerReturned(kind) ==
    /\ AfterLine /\ last_exc = "none"
    /\ Len(Parts(last_op.data)) >= 2 /\ Parts(last_op.data)[2] = kind
    /\ Len(Parts(last_op.data)) = 3 => SAMPLE_RATE_match(Parts(last_op.data)[3])

\* C32: a sample applied by handle_counter, handle_gauge, handle_set or
\* handle_timer adds exactly 1 to the internal counter of its own kind
\* ('counters', 'gauges', 'sets', 'timers' of the controller on this host)
\* and leaves the counters of the three other kinds as they were.
C32_OwnKindCounter ==
    \A kind \in Kinds :
        HandlerReturned(kind) =>
            \A other \in Kinds :
                InternalCount(Live, KindCounter(other))
                  = InternalCount(prev, KindCounter(other))
                    + (IF other = kind THEN 1 ELSE 0)

\* a set sample was applied in an interval that had already counted a
\* counter, a gauge and a timer sample
C32_Witness ==
    /\ HandlerReturned(<<"s">>)
    /\ InternalCount(prev, METRICS_SET) = 0
    /\ InternalCount(Live, METRICS_SET) = 1
    /\ InternalCount(Live, METRICS_COUNTER) + InternalCount(Live, METRICS_GAUGE)
         + InternalCount(Live, METRICS_TIMER) = 2

\* the number of metric keys a payload carries
MetricKeys(P) ==
    Cardinality(DOMAIN P.counters) + Cardinality(DOMAIN P.gauges)
      + Cardinality(DOMAIN P.sets) + Cardinality(DOMAIN P.timers)

\* what the merge of the last payload added to an internal counter
MergeBump(key) == InternalCount(Live, key) - InternalCount(prev, key)

\* C33: the merge of one upstream payload adds exactly 1 to
\* downstream_payloads_received and exactly the number of metric keys of the
\* payload (counter, gauge, set and timer keys) to
\* downstream_packets_received, and internal_counters holds both after the
\* payload's internal maps were merged.
C33_DownstreamAccounting ==
    last_op.op = "downstream_data" =>
        /\ MergeBump(METRICS_DOWNSTREAM_PAYLOADS_RECEIVED) = 1
        /\ MergeBump(METRICS_DOWNSTREAM_PACKETS_RECEIVED)
             = MetricKeys(last_op.data)

\* a later frame of the peer, after a socket error of its upstream sink
LaterFrame ==
    get_metrics(PeerHost, 1, 5,
                PeerStats(Put(EmptyDict, KeyX, 7), EmptyDict, EmptyDict,
                          EmptyDict))
InternalNames == {"counters", "gauges", "timers"}
LocalInternal(L, name) ==
    CASE name = "counters" -> L.internal_counters
      [] name = "gauges" -> L.internal_gauges
      [] name = "timers" -> L.internal_timers
\* every leaf of u is in the tree with u's value, and every leaf of d that u
\* does not hold is in it with d's value
IsDeepUnion(tree, d, u) ==
    /\ \A p \in DOMAIN u.leaves :
          HasLeaf(tree, p) /\ tree.leaves[p] = u.leaves[p]
    /\ \A p \in DOMAIN d.leaves \ DOMAIN u.leaves :
          HasLeaf(tree, p) /\ tree.leaves[p] = d.leaves[p]
    /\ DOMAIN tree.leaves = DOMAIN d.leaves \cup DOMAIN u.leaves

\* C34: the merge of a payload's internal counters, gauges and timers into
\* the local ones is a deep union: every leaf of the payload is in the
\* result with the payload's value, and every local leaf the payload does
\* not hold (another host, another name) is there unchanged, whatever the
\* event loop has done before the merge; and a merge that returned left the
\* payload's leaves in the live internal maps.
C34_InternalDeepUnion ==
    [](/\ loop_pc = "idle" =>
             \A P \in MergeFrames \cup {LaterFrame} :
                 \A name \in InternalNames :
                     LET d == LocalInternal(Live, name)
                         m == merge_dicts(d, P.internal[name])
                     IN  /\ m.exc = "none"
                         /\ IsDeepUnion(m.tree, d, P.internal[name])
       /\ (last_op.op = "downstream_data" /\ last_exc = "none") =>
             \A name \in InternalNames :
                 \A p \in DOMAIN last_op.data.internal[name].leaves :
                     /\ HasLeaf(LocalInternal(Live, name), p)
                     /\ LocalInternal(Live, name).leaves[p]
                          = last_op.data.internal[name].leaves[p])

\* a merge returned and left leaves of the peer beside leaves of this host,
\* and a later frame of the peer holds another value for one of them
C34_Witness ==
    LET p == <<METRICS_BACKEND, PeerHost, "upstream", "exceptions">>
    IN  /\ last_op.op = "downstream_data" /\ last_exc = "none"
        /\ HasLeaf(internal_counters, p)
        /\ internal_counters.leaves[p] # LaterFrame.internal.counters.leaves[p]
        /\ InternalCount(Live, METRICS_DOWNSTREAM_PAYLOADS_RECEIVED) = 1
        /\ InternalCount(Live, METRICS_PACKETS_RECEIVED) = 1

\* the four public maps, empty
NoSamples == <<EmptyDict, EmptyDict, EmptyDict, EmptyDict>>

\* C35: no sample is lost or duplicated across flushes.  The snapshot of a
\* tick holds the public maps exactly as the datagrams and the merges since
\* the last snapshot left them, and leaves them empty, so that nothing of
\* them reaches a later snapshot; while a tick is in progress neither the
\* live public maps nor the snapshot change; and between ticks the
\* live public maps change only by a datagram or a merge.
C35_SamplesFlushedOnce ==
    [][/\ (loop_pc = "idle" /\ loop_pc' = "snapshot_taken") =>
              /\ PublicMaps(stats') = PublicMaps(Live)
              /\ PublicMaps(Live)' = NoSamples
       /\ loop_pc # "idle" => PublicMaps(Live)' = PublicMaps(Live)
       /\ (loop_pc # "idle" /\ loop_pc' # "idle") =>
              PublicMaps(stats') = PublicMaps(stats)
       /\ (loop_pc = "idle" /\ loop_pc' = "idle") =>
              \/ PublicMaps(Live)' = PublicMaps(Live)
              \/ n_datagrams' + n_merges' = n_datagrams + n_merges + 1]_vars

\* the snapshot of the second tick holds the one timer sample received since
\* the first tick ended
C35_Witness ==
    /\ SnapshotReturned /\ n_flushes = 1
    /\ flushed_log = <<LineT100>>
    /\ PublicMaps(stats) = <<EmptyDict, EmptyDict, EmptyDict,
                             Put(EmptyDict, KeyT, <<100000>>)>>
    /\ PublicMaps(Live) = NoSamples

\* C36: an upstream merge is all-or-nothing: when downstream_data fails
\* part-way through a payload, the live counters, gauges, sets, timers and
\* internal maps are as they were before the merge started.
C36_MergeAllOrNothing ==
    (last_op.op = "downstream_data" /\ last_exc # "none") => Live = prev

\* C37: ingest accounting.  After any sequence of single-line datagrams
\* within one flush interval, with no upstream merge, packets_received is the
\* sum of the per-kind internal counters (counters, gauges, sets, timers)
\* and bad_lines_seen: every received line is counted as exactly one of
\* applied or bad.
C37_IngestAccounting ==
    (/\ n_merges = 0
     /\ \A i \in 1..Len(interval_log) : ~IsMultiLine(interval_log[i])) =>
        InternalCount(Live, METRICS_PACKETS_RECEIVED)
          = InternalCount(Live, METRICS_COUNTER)
            + InternalCount(Live, METRICS_GAUGE)
            + InternalCount(Live, METRICS_SET)
            + InternalCount(Live, METRICS_TIMER)
            + InternalCount(Live, METRICS_BAD_STATS_RECEIVED)

\* process_stats has started the thread of every sink
AllStarted ==
    \/ loop_pc = "snapshot_taken" /\ to_start = <<>>
    \/ loop_pc = "barrier"
\* the arguments the sink of b is given are the snapshot the tick took: its
\* timestamp, and the public maps and internal counters the snapshot found
GivenTheSnapshot(b) ==
    LET given == arguments(b).value
    IN  /\ given.timestamp = epoch_log[Len(epoch_log)]
        /\ PublicMaps(given) = PublicMaps(prev)
        /\ given.int_counters = prev.internal_counters

\* C38: at each flush tick the deliver() of every configured sink is called
\* exactly once, never again within the tick, and every sink is given the
\* timestamp and the contents of the snapshot of the tick, in whatever order
\* the threads run.
C38_DeliverOncePerTick ==
    /\ [](/\ AllStarted => \A b \in BackendNames : tpc[b] # "none"
          /\ \A b \in BackendNames : tpc[b] = "started" => GivenTheSnapshot(b))
    /\ [][\A b \in BackendNames :
             /\ (tpc[b] # "started" /\ tpc'[b] = "started") => tpc[b] = "none"
             /\ (tpc[b] # "none" /\ tpc'[b] = "none") =>
                    loop_pc = "idle" /\ Len(epoch_log') = Len(epoch_log) + 1]_vars

\* the logger's deliver() has returned and has sorted the timer list of its
\* copy, and the upstream sink's deliver() is about to be called
C38_Witness ==
    /\ {"logger", "upstream"} \subseteq BackendNames
    /\ tpc["logger"] = "delivered" /\ tpc["upstream"] = "started"
    /\ KeyT \in DOMAIN stats.timers
    /\ copies["logger"].timers # stats.timers
    /\ GivenTheSnapshot("upstream")

\* the deliver() of a sink has failed in the tick: it raised, or it ended on
\* a socket error
Failed(b) == tpc[b] = "raised" \/ (socket_error[b] /\ tpc[b] # "hung")
\* a step of process_stats after the snapshot, or of one of its threads
TickStep ==
    \/ StartThread
    \/ BarrierPoll
    \/ BarrierExit
    \/ Threads
    \/ GraphiteDeliver
    \/ StatsdDeliver

\* C39: the failure of one sink is isolated.  The step in which the
\* deliver() of a sink raises or ends on a socket error leaves the thread
\* and the copy of every other sink, the snapshot, the coordinator and the
\* live state as they were; a tick in which a sink has failed and no thread
\* hangs is never stuck: every other thread is still given the snapshot and
\* has ended when the barrier lets it go, and the barrier is passed; and the
\* tick returns to the event loop without an exception, which goes on to the
\* next tick.
C39_FailureIsolated ==
    /\ [](\A b \in BackendNames : (Failed(b) /\ ~Hung) =>
             /\ loop_pc # "idle" => ENABLED TickStep
             /\ \A c \in BackendNames \ {b} :
                   /\ tpc[c] = "started" => arguments(c).value = stats
                   /\ (AllStarted /\ c \notin threads) =>
                          tpc[c] \in {"done", "raised"}
             /\ (loop_pc = "idle" /\ now < next_timeout
                 /\ n_datagrams + n_merges + n_flushes < MaxTicks) =>
                    ENABLED Elapse(MaxTicks))
    /\ [][/\ \A b \in BackendNames :
                (tpc[b] = "started" /\ Failed(b)') =>
                   /\ \A c \in BackendNames \ {b} :
                         /\ tpc'[c] = tpc[c] /\ copies'[c] = copies[c]
                         /\ socket_error'[c] = socket_error[c]
                   /\ stats' = stats /\ loop_vars' = loop_vars
                   /\ Live' = Live
          /\ (loop_pc # "idle" /\ loop_pc' = "idle"
              /\ \E b \in BackendNames : tpc[b] = "raised") =>
                 /\ last_exc' = "none"
                 /\ n_flushes' = n_flushes + 1
                 /\ \A c \in BackendNames : tpc[c] \in {"done", "raised"}]_vars

\* the upstream sink ended its delivery on a socket error in the first
\* tick, the tick returned, and the snapshot of the second tick is taken
C39_Witness ==
    /\ "upstream" \in BackendNames
    /\ exceptions["upstream"] = 1
    /\ Len(epoch_log) = 2 /\ SnapshotReturned
    /\ n_flushes = 1

\* the public map of a kind
KindMap(L, kind) ==
    CASE kind = <<"c">> -> L.counters
      [] kind = <<"g">> -> L.gauges
      [] kind = <<"s">> -> L.sets
      [] kind = <<"m", "s">> -> L.timers
\* the maps hold the same entries but for the key
SameBut(new, old, key) ==
    /\ DOMAIN new \ {key} = DOMAIN old \ {key}
    /\ \A j \in DOMAIN old \ {key} : new[j] = old[j]

\* C40: a datagram of one sample of kind K on the key k changes, of the
\* public maps, only the entry k of the map of kind K: the three other maps
\* and every other key of that map are as they were, whether the handler
\* returned or raised.
C40_SampleFrame ==
    \A kind \in Kinds :
        (AfterLine /\ Len(Parts(last_op.data)) >= 2
         /\ Parts(last_op.data)[2] = kind) =>
            \A other \in Kinds :
                IF other = kind
                THEN SameBut(KindMap(Live, kind), KindMap(prev, kind),
                             SampleKey(last_op.data))
                ELSE KindMap(Live, other) = KindMap(prev, other)

\* the gauge g2 was set while the gauge g1 and the counter foo were held
C40_Witness ==
    /\ AfterLine /\ last_op.data = LineG2Plus4 /\ last_exc = "none"
    /\ DOMAIN prev.gauges = {<<"g", "1">>}
    /\ DOMAIN prev.counters # {}
    /\ DOMAIN gauges = {<<"g", "1">>, <<"g", "2">>}
    /\ gauges[<<"g", "1">>] = prev.gauges[<<"g", "1">>]
    /\ counters = prev.counters

====
